---- MODULE Spec2Model ----
(***************************************************************************)
(* Model of AISDKModelsClient (packages/core/src/ai-sdk/client.ts): the    *)
(* adapter between the Google GenAI request/response shapes and the AI SDK *)
(* backend.                                                                *)
(*                                                                         *)
(* Spec        one call through the client, response side: either the      *)
(*             blocking path (generateText result converted by             *)
(*             convertToGoogleGenAIResponse) or the streaming path (the    *)
(*             async generator convertStreamToGoogleGenAI, one action per  *)
(*             backend chunk and per await).                               *)
(* SpecParams  the request side: convertToAISDKParams applied to requests  *)
(*             of bounded size, drawn by InitParams.                       *)
(* SpecFair    Spec with a consumer that keeps pulling the generator.      *)
(* SpecConcurrent  two streaming calls through one client, their pulls     *)
(*             interleaved in every order.                                 *)
(*                                                                         *)
(* JavaScript values: strings are TLA+ strings, objects are records,       *)
(* arrays and insertion-ordered Maps are sequences.  A property that is    *)
(* missing or holds undefined is a field the record does not have; a       *)
(* variable that holds undefined is Undefined where a string is expected   *)
(* and UndefinedObject where an object is expected.  The promises          *)
(* stream.usage, stream.finishReason and stream.providerMetadata are       *)
(* modelled as resolving (the awaits are the only use the source makes of  *)
(* them).                                                                  *)
(***************************************************************************)
EXTENDS Integers, Sequences, FiniteSets, TLC

VARIABLES
    call,                 \* the entry point in flight: "none" | "generate" | "stream" |
                          \* "embed" | "params"
    pc,                   \* position of the in-flight call
    consumed,             \* chunks the backend's fullStream has delivered so far
    accumulatedText,      \* client.ts:195
    pendingToolCalls,     \* client.ts:197, a Map in insertion order
    yielded,              \* responses the generator has yielded, in order
    thrown,               \* the error raised to the caller, UndefinedObject when none
    resolved,             \* which of the stream's promises have been awaited
    finalUsage,           \* client.ts:265
    finalFinishReason,    \* client.ts:266
    finalProviderMetadata,\* client.ts:267
    result,               \* what generateText returned (blocking path)
    response,             \* what generateContent returned (blocking path)
    params,               \* the GenerateContentParameters of the call
    aiSdkParams,          \* what convertToAISDKParams built from params
    backendError,         \* what generateText / streamText threw, UndefinedObject when nothing
    streams               \* the generators of calls made side by side: call id -> its locals

vars == <<call, pc, consumed, accumulatedText, pendingToolCalls, yielded, thrown,
          resolved, finalUsage, finalFinishReason, finalProviderMetadata,
          result, response, params, aiSdkParams, backendError, streams>>

-----------------------------------------------------------------------------
(* Bounds of the model *)

MaxEvents == 3
MaxToolCalls == 2
MaxToolResults == 2
\* size of a content list: its turns plus their parts
MaxSize == 5
\* chunks each of the streams that run side by side delivers
MaxPulls == 2

-----------------------------------------------------------------------------
(* JavaScript values *)

\* undefined, where a string is expected
Undefined == "undefined"

\* undefined, where an object is expected
UndefinedObject == [undefined |-> TRUE]

\* the empty object literal {}
EmptyObject == [k \in {} |-> k]

\* whether o.f (o?.f) is neither missing nor undefined
Has(o, f) == f \in DOMAIN o

\* o.f (o?.f) for a string-valued property
GetString(o, f) == IF Has(o, f) THEN o[f] ELSE Undefined

\* o.f (o?.f) for an object-valued property
GetObject(o, f) == IF Has(o, f) THEN o[f] ELSE UndefinedObject

\* Boolean(v) of a string or undefined
Truthy(v) == v # Undefined /\ v # ""

\* a || b, a a string or undefined
Or(a, b) == IF Truthy(a) THEN a ELSE b

\* a || b, a an object or undefined
OrObject(a, b) == IF a # UndefinedObject THEN a ELSE b

\* o with property f set to v
Set(o, f, v) == [k \in DOMAIN o \cup {f} |-> IF k = f THEN v ELSE o[k]]

\* o with property f set to the string v, or left unset when v is undefined
WithString(o, f, v) == IF v = Undefined THEN o ELSE Set(o, f, v)

\* o with property f set to src.g, or left unset when src.g is undefined
Copy(o, f, src, g) == IF Has(src, g) THEN Set(o, f, src[g]) ELSE o

\* A value of a union type is a record tagged by its typeof: [string |-> s],
\* [number |-> n], [boolean |-> b], [array |-> <<...>>]; an object is its record.
IsString(v) == Has(v, "string")
IsArray(v) == Has(v, "array")

\* Boolean(v) of a tagged value
TruthyValue(v) ==
    IF IsString(v) THEN v.string # ""
    ELSE IF Has(v, "number") THEN v.number # 0
    ELSE IF Has(v, "boolean") THEN v.boolean
    ELSE v # UndefinedObject

BoundedSeq(S, n) == UNION {[1..k -> S] : k \in 0..n}

\* MapSet adding an entry for every call, like a list
MapSet_Appends(m, k, v) == Append(m, [key |-> k, value |-> v])

\* Map.prototype.set: an existing key keeps its position and takes the new value
MapSet(m, k, v) ==
    IF \E i \in DOMAIN m : m[i].key = k
    THEN [i \in DOMAIN m |-> IF m[i].key = k THEN [key |-> k, value |-> v] ELSE m[i]]
    ELSE Append(m, [key |-> k, value |-> v])

-----------------------------------------------------------------------------
(* Values the backend can produce *)

ArgsQ == [q |-> "x"]

TextDeltas == {"Hi", " there"}
ToolCallIds == {"c1", "c2"}

TextChunks == {[type |-> "text-delta", textDelta |-> t] : t \in TextDeltas}

ToolCallChunks ==
    {[type |-> "tool-call", toolCallId |-> i, toolName |-> "search", args |-> ArgsQ]
        : i \in ToolCallIds}
    \cup {[type |-> "tool-call", toolCallId |-> i, toolName |-> "read"] : i \in ToolCallIds}

ToolResultChunks ==
    {[type |-> "tool-result", toolCallId |-> "c1", toolName |-> "search", result |-> "found"]}

ErrorChunks ==
    {[type |-> "error", error |-> [message |-> "boom", stack |-> "at backend"]],
     [type |-> "error"]}

StepStartChunks == {[type |-> "step-start"]}

UnknownChunks == {[type |-> "finish"]}

IgnoredChunks == ToolResultChunks \cup StepStartChunks \cup UnknownChunks

Chunks == TextChunks \cup ToolCallChunks \cup ErrorChunks \cup IgnoredChunks

BackendFinishReasons ==
    {"stop", "length", "content-filter", "tool-calls", "error", "other", "unknown", Undefined}

Usages == {UndefinedObject, [promptTokens |-> 3, completionTokens |-> 2, totalTokens |-> 5]}

ProviderMetadatas == {UndefinedObject, [anthropic |-> [cacheReadInputTokens |-> 7]]}

DefaultModelName == "default-model"

Models == {Undefined, "claude-sonnet"}

ResultToolCalls ==
    {[toolCallId |-> "c1", toolName |-> "search", args |-> ArgsQ],
     [toolCallId |-> "c2", toolName |-> "read"]}

ResultToolResults ==
    {[toolCallId |-> "c1", toolName |-> "search", result |-> "found"],
     [toolCallId |-> "c2", toolName |-> "read", result |-> "data"]}

\* the usage and the provider metadata a generateText result can carry
ResultUsages ==
    (Usages \ {UndefinedObject}) \cup {[promptTokens |-> 3], [completionTokens |-> 0]}

ResultProviderMetadatas ==
    (ProviderMetadatas \ {UndefinedObject})
    \cup {[anthropic |-> [cacheReadInputTokens |-> 0]],
          [anthropic |-> EmptyObject],
          [openai |-> [cachedPromptTokens |-> 4]]}

\* o without the properties in drop
Without(o, drop) == [k \in DOMAIN o \ drop |-> o[k]]

\* what generateText can resolve to: every property may be missing
Results ==
    {Without(r, drop) :
        r \in [text : {"", "Hi"},
               toolCalls : BoundedSeq(ResultToolCalls, MaxToolCalls),
               toolResults : BoundedSeq(ResultToolResults, MaxToolResults),
               finishReason : BackendFinishReasons \ {Undefined},
               usage : ResultUsages,
               providerMetadata : ResultProviderMetadatas],
        drop \in SUBSET {"text", "toolCalls", "toolResults", "finishReason",
                         "usage", "providerMetadata"}}

-----------------------------------------------------------------------------
(* Values a caller can pass *)

Roles == {"user", "model", "system"}

PartKinds ==
    {[text |-> "a"],
     [text |-> ""],
     [functionCall |-> [id |-> "c1", name |-> "search", args |-> ArgsQ]],
     [functionCall |-> [name |-> "read"]],
     [functionResponse |->
         [id |-> "c1", name |-> "search", response |-> [output |-> [string |-> "found"]]]],
     [functionResponse |-> [id |-> "c2", name |-> "read"]]}

\* the turns of size at most n: a turn counts one, and one for each part
Contents(n) == {[role |-> r, parts |-> ps] : r \in Roles, ps \in BoundedSeq(PartKinds, n - 1)}

\* the other shapes of ContentListUnion, and outputs that are not plain text
UnionForms ==
    {[string |-> "Hello"],
     [text |-> "a"],
     [role |-> "model", parts |-> <<[text |-> "a"]>>],
     [array |-> <<[string |-> "Hello"]>>],
     [array |-> <<[text |-> "a"], [string |-> "b"]>>],
     [array |-> <<[array |-> <<[string |-> "a"], [text |-> "b"]>>],
                  [role |-> "system", parts |-> <<[text |-> "s"]>>]>>]}
    \cup {[array |-> <<[role |-> "user",
                        parts |-> <<[functionResponse |->
                                       [id |-> "c1", name |-> "search",
                                        response |-> [output |-> o]]]>>]>>] :
             o \in {[string |-> ""], [number |-> 0], [number |-> 1], [boolean |-> FALSE],
                    [boolean |-> TRUE], [rows |-> "2"], EmptyObject}}

Schemas ==
    {[type |-> "OBJECT", properties |-> [x |-> [type |-> "string"]], required |-> <<"x">>],
     [type |-> "object", additionalProperties |-> FALSE],
     [type |-> "object", properties |-> [x |-> [type |-> "string"]],
      additionalProperties |-> TRUE],
     [type |-> "STRING"],
     [type |-> "Number"],
     [type |-> "Object", properties |-> [x |-> [type |-> "string"]]],
     [description |-> "untyped"]}

FunctionDeclarations ==
    {[name |-> "f", description |-> "first"],
     [name |-> "", description |-> "empty name"],
     [description |-> "no name"]}
    \cup {[name |-> "f", description |-> "typed", parameters |-> sch] : sch \in Schemas}
    \cup {[name |-> "g", parameters |-> sch] : sch \in Schemas}

ToolLists ==
    {<<>>, <<[googleSearch |-> EmptyObject]>>}
    \cup {<<[functionDeclarations |-> <<d>>]>> : d \in FunctionDeclarations}
    \cup {<<[functionDeclarations |-> <<d, e>>]>> :
             d \in FunctionDeclarations, e \in FunctionDeclarations}
    \cup {<<[googleSearch |-> EmptyObject], [functionDeclarations |-> <<d>>],
             [functionDeclarations |-> <<>>]>> : d \in FunctionDeclarations}

\* the AbortSignal a caller can put in the config of a request
AbortSignal == [aborted |-> FALSE]

Configs ==
    {EmptyObject,
     [temperature |-> 1, maxOutputTokens |-> 100, topP |-> 1],
     [abortSignal |-> AbortSignal],
     [temperature |-> 1, abortSignal |-> AbortSignal]}
    \cup {[tools |-> t] : t \in ToolLists}
    \cup {[tools |-> t, automaticFunctionCalling |-> [disable |-> d]] :
             t \in ToolLists, d \in BOOLEAN}
    \cup {[tools |-> t, automaticFunctionCalling |-> EmptyObject] : t \in ToolLists}

\* requests other than a plain Content[]
OtherParams ==
    {[contents |-> c] : c \in UnionForms}
    \cup {[contents |-> [array |-> <<[string |-> "Hello"]>>], config |-> cfg] :
             cfg \in Configs}

\* the requests of the calls whose response side is followed
CallInputs ==
    {[contents |-> [array |-> <<[string |-> "Hello"]>>]]}
    \cup {[contents |-> [array |-> <<[string |-> "Hello"]>>], model |-> m] :
             m \in Models \ {Undefined}}

\* Date.now(), as text
Clock == {"1700000000000", "1700000000001"}

\* what the backend call can throw
BackendErrors ==
    {[name |-> "Error", message |-> "timeout"],
     [name |-> "AI_APICallError", message |-> "rate limited"]}

\* ErrorToString giving the name of the error without its message
ErrorToString_NameOnly(error) == error.name

\* `${error}` of an Error object
ErrorToString(error) == error.name \o ": " \o error.message

-----------------------------------------------------------------------------
(* convertFinishReason, client.ts:462-479 *)

\* convertFinishReason with the tool-calls case falling through to OTHER
convertFinishReason_ToolCallsOther(reason) ==
    CASE reason = "stop" -> "STOP"
      [] reason = "length" -> "MAX_TOKENS"
      [] reason = "content-filter" -> "SAFETY"
      [] reason = "tool-calls" -> "OTHER"
      [] reason = "error" -> "OTHER"
      [] reason = "other" -> "OTHER"
      [] OTHER -> Undefined

\* convertFinishReason with OTHER as the default
convertFinishReason_DefaultOther(reason) ==
    CASE reason = "stop" -> "STOP"
      [] reason = "length" -> "MAX_TOKENS"
      [] reason = "content-filter" -> "SAFETY"
      [] reason = "tool-calls" -> "STOP"
      [] OTHER -> "OTHER"

convertFinishReason(reason) ==
    CASE reason = "stop" -> "STOP"
      [] reason = "length" -> "MAX_TOKENS"
      [] reason = "content-filter" -> "SAFETY"
      [] reason = "tool-calls" -> "STOP"
      [] reason = "error" -> "OTHER"
      [] reason = "other" -> "OTHER"
      [] OTHER -> Undefined

\* UsageMetadata with the cached count defaulting to zero like the other counts
UsageMetadata_CachedZero(usage, providerMetadata) ==
    [promptTokenCount |-> IF Has(usage, "promptTokens") THEN usage.promptTokens ELSE 0,
     candidatesTokenCount |-> IF Has(usage, "completionTokens")
                              THEN usage.completionTokens ELSE 0,
     totalTokenCount |-> IF Has(usage, "totalTokens") THEN usage.totalTokens ELSE 0,
     cachedContentTokenCount |->
         IF Has(GetObject(providerMetadata, "anthropic"), "cacheReadInputTokens")
         THEN providerMetadata.anthropic.cacheReadInputTokens ELSE 0]

\* the usage metadata both paths build, client.ts:171-176 and 278-283
UsageMetadata(usage, providerMetadata) ==
    LET counts == [promptTokenCount |-> IF Has(usage, "promptTokens")
                                        THEN usage.promptTokens ELSE 0,
                   candidatesTokenCount |-> IF Has(usage, "completionTokens")
                                            THEN usage.completionTokens ELSE 0,
                   totalTokenCount |-> IF Has(usage, "totalTokens")
                                       THEN usage.totalTokens ELSE 0]
        anthropic == GetObject(providerMetadata, "anthropic")
    IN  IF Has(anthropic, "cacheReadInputTokens")
        THEN [k \in DOMAIN counts \cup {"cachedContentTokenCount"} |->
                 IF k = "cachedContentTokenCount" THEN anthropic.cacheReadInputTokens
                 ELSE counts[k]]
        ELSE counts

\* a Candidate; finishReason is left unset when it is undefined
Candidate(parts, finishReason) ==
    WithString([content |-> [role |-> "model", parts |-> parts], index |-> 0],
               "finishReason", finishReason)

\* PartialResponse with the candidate marked finished
PartialResponse_Stop(parts, model) ==
    [candidates |-> <<Candidate(parts, "STOP")>>,
     modelVersion |-> Or(model, DefaultModelName)]

\* a partial response of the stream, client.ts:247-258
PartialResponse(parts, model) ==
    [candidates |-> <<Candidate(parts, Undefined)>>,
     modelVersion |-> Or(model, DefaultModelName)]

\* a response with usage, and with the history when it is not empty,
\* client.ts:178-186 and 307-315
FullResponse(parts, finishReason, usageMetadata, model, history) ==
    LET r == [candidates |-> <<Candidate(parts, finishReason)>>,
              usageMetadata |-> usageMetadata,
              modelVersion |-> Or(model, DefaultModelName)]
    IN  IF Len(history) > 0
        THEN [k \in DOMAIN r \cup {"automaticFunctionCallingHistory"} |->
                 IF k = "automaticFunctionCallingHistory" THEN history ELSE r[k]]
        ELSE r

-----------------------------------------------------------------------------
(* normalizeContents and normalizeContent, client.ts:320-353 *)

\* normalizeContent with an explicit turn wrapped like a bare block
normalizeContent_WrapsTurns(content) ==
    IF IsArray(content)
    THEN [role |-> "user",
          parts |-> [i \in DOMAIN content.array |->
                        IF IsString(content.array[i])
                        THEN [text |-> content.array[i].string]
                        ELSE content.array[i]]]
    ELSE IF IsString(content)
    THEN [role |-> "user", parts |-> <<[text |-> content.string]>>]
    ELSE [role |-> "user", parts |-> <<content>>]

normalizeContent(content) ==
    IF IsArray(content)
    THEN [role |-> "user",
          parts |-> [i \in DOMAIN content.array |->
                        IF IsString(content.array[i])
                        THEN [text |-> content.array[i].string]
                        ELSE content.array[i]]]
    ELSE IF IsString(content)
    THEN [role |-> "user", parts |-> <<[text |-> content.string]>>]
    ELSE IF Has(content, "parts")
    THEN content
    ELSE [role |-> "user", parts |-> <<content>>]

normalizeContents(contents) ==
    IF IsArray(contents)
    THEN [i \in DOMAIN contents.array |-> normalizeContent(contents.array[i])]
    ELSE <<normalizeContent(contents)>>

-----------------------------------------------------------------------------
(* convertContentsToMessages, client.ts:355-441 *)

\* parts.map(part => part.text).filter(Boolean).join('')
RECURSIVE JoinText(_)
JoinText(parts) ==
    IF parts = <<>> THEN ""
    ELSE (IF Truthy(GetString(Head(parts), "text")) THEN Head(parts).text ELSE "")
         \o JoinText(Tail(parts))

\* the text of a turn, client.ts:364-367
TurnText(content) == JoinText(content.parts)

HasFunctionCall(part) == Has(part, "functionCall")
HasFunctionResponse(part) == Has(part, "functionResponse")

\* one extracted tool call, client.ts:372-376; now is Date.now() as text
ToolCallOf(part, now) ==
    Copy([toolCallId |-> Or(GetString(part.functionCall, "id"), "call_" \o now),
          args |-> OrObject(GetObject(part.functionCall, "args"), EmptyObject)],
         "toolName", part.functionCall, "name")

\* the tool calls of a turn, client.ts:370-376
TurnToolCalls(content, now) ==
    LET calls == SelectSeq(content.parts, HasFunctionCall)
    IN  [i \in DOMAIN calls |-> ToolCallOf(calls[i], now)]

\* the tool results of a turn, client.ts:379-380
TurnToolResults(content) == SelectSeq(content.parts, HasFunctionResponse)

\* a structured tool-call content item, client.ts:389-394 and 409-414
ToolCallPart(toolCall) ==
    Copy([type |-> "tool-call", toolCallId |-> toolCall.toolCallId, args |-> toolCall.args],
         "toolName", toolCall, "toolName")

ToolCallParts(toolCalls) == [i \in DOMAIN toolCalls |-> ToolCallPart(toolCalls[i])]

PlaceholderText == "I'll help you with that. Let me use the appropriate tools."

\* TurnTextMessages with the tool calls attached whatever the role of the turn
TurnTextMessages_AnyRole(content, now) ==
    IF Truthy(TurnText(content))
    THEN <<[role |-> IF content.role = "user" THEN "user" ELSE "assistant",
            content |-> <<[type |-> "text", text |-> TurnText(content)]>>
                        \o ToolCallParts(TurnToolCalls(content, now))]>>
    ELSE IF Len(TurnToolCalls(content, now)) > 0
    THEN <<[role |-> IF content.role = "user" THEN "user" ELSE "assistant",
            content |-> <<[type |-> "text", text |-> PlaceholderText]>>
                        \o ToolCallParts(TurnToolCalls(content, now))]>>
    ELSE <<>>

\* TurnTextMessages with no message for a model turn that has tool calls and no text
TurnTextMessages_DropsToolOnlyTurn(content, now) ==
    IF Truthy(TurnText(content))
    THEN <<[role |-> IF content.role = "user" THEN "user" ELSE "assistant",
            content |-> <<[type |-> "text", text |-> TurnText(content)]>>
                        \o (IF content.role = "model"
                                  /\ Len(TurnToolCalls(content, now)) > 0
                            THEN ToolCallParts(TurnToolCalls(content, now))
                            ELSE <<>>)]>>
    ELSE <<>>

\* the text / tool-call message of a turn, if it has one, client.ts:382-421
TurnTextMessages(content, now) ==
    IF Truthy(TurnText(content))
    THEN <<[role |-> IF content.role = "user" THEN "user" ELSE "assistant",
            content |-> <<[type |-> "text", text |-> TurnText(content)]>>
                        \o (IF content.role = "model"
                                  /\ Len(TurnToolCalls(content, now)) > 0
                            THEN ToolCallParts(TurnToolCalls(content, now))
                            ELSE <<>>)]>>
    ELSE IF content.role = "model" /\ Len(TurnToolCalls(content, now)) > 0
    THEN <<[role |-> "assistant",
            content |-> <<[type |-> "text", text |-> PlaceholderText]>>
                        \o ToolCallParts(TurnToolCalls(content, now))]>>
    ELSE <<>>

\* JSON.stringify of the non-string outputs the model uses
JSONStringify(v) ==
    IF Has(v, "number") THEN (IF v.number = 1 THEN "1" ELSE "0")
    ELSE IF Has(v, "boolean") THEN (IF v.boolean THEN "true" ELSE "false")
    ELSE IF v = EmptyObject THEN "{}"
    ELSE "{\"rows\":\"" \o v.rows \o "\"}"

\* response?.output || 'Tool executed', then stringified, client.ts:425 and 433
ToolResultText(functionResponse) ==
    LET output == GetObject(GetObject(functionResponse, "response"), "output")
    IN  IF ~TruthyValue(output) THEN "Tool executed"
        ELSE IF IsString(output) THEN output.string
        ELSE JSONStringify(output)

\* the tool message of one tool result, client.ts:426-436
ToolMessage(part) ==
    [role |-> "tool",
     content |-> <<Copy(Copy([type |-> "tool-result",
                              result |-> ToolResultText(part.functionResponse)],
                             "toolCallId", part.functionResponse, "id"),
                        "toolName", part.functionResponse, "name")>>]

\* TurnToolMessages with all the results of a turn in one tool message
TurnToolMessages_Merged(content) ==
    LET results == TurnToolResults(content)
    IN  IF results = <<>> THEN <<>>
        ELSE <<[role |-> "tool",
                content |-> [i \in DOMAIN results |-> ToolMessage(results[i]).content[1]]]>>

\* the tool messages of a turn, one per tool result, client.ts:423-437
TurnToolMessages(content) ==
    LET results == TurnToolResults(content)
    IN  [i \in DOMAIN results |-> ToolMessage(results[i])]

\* TurnMessages with the tool messages of a turn before its text / tool-call message
TurnMessages_ToolsFirst(content, now) ==
    IF content.role = "system" THEN <<>>
    ELSE TurnToolMessages(content) \o TurnTextMessages(content, now)

\* the messages of one turn: none for a system turn
TurnMessages(content, now) ==
    IF content.role = "system" THEN <<>>
    ELSE TurnTextMessages(content, now) \o TurnToolMessages(content)

RECURSIVE convertContentsToMessages(_, _)
convertContentsToMessages(contents, now) ==
    IF contents = <<>> THEN <<>>
    ELSE TurnMessages(Head(contents), now) \o convertContentsToMessages(Tail(contents), now)

-----------------------------------------------------------------------------
(* extractSystemMessage, client.ts:443-452 *)

IsSystem(content) == content.role = "system"

extractSystemMessage(contents) ==
    IF SelectSeq(contents, IsSystem) = <<>> THEN Undefined
    ELSE JoinText(Head(SelectSeq(contents, IsSystem)).parts)

-----------------------------------------------------------------------------
(* convertToolsToAISDK and convertGoogleGenAISchemaToJSONSchema,
   client.ts:481-530 *)

UpperCaseLetters == "ABCDEFGHIJKLMNOPQRSTUVWXYZ"
LowerCaseLetters == "abcdefghijklmnopqrstuvwxyz"

\* the lower-case form of one character
LowerChar(c) ==
    IF \E i \in 1..Len(UpperCaseLetters) : SubSeq(UpperCaseLetters, i, i) = c
    THEN LET i == CHOOSE k \in 1..Len(UpperCaseLetters) : SubSeq(UpperCaseLetters, k, k) = c
         IN  SubSeq(LowerCaseLetters, i, i)
    ELSE c

\* String.prototype.toLowerCase
RECURSIVE ToLowerCase(_)
ToLowerCase(type) ==
    IF type = "" THEN ""
    ELSE LowerChar(SubSeq(type, 1, 1)) \o ToLowerCase(SubSeq(type, 2, Len(type)))

\* convertGoogleGenAISchemaToJSONSchema with additionalProperties copied from the
\* input schema instead of defaulted
convertGoogleGenAISchemaToJSONSchema_CopiesAdditional(schema) ==
    IF schema = UndefinedObject THEN EmptyObject
    ELSE IF GetString(schema, "type") \in {"OBJECT", "object"}
    THEN Copy([type |-> "object",
               properties |-> OrObject(GetObject(schema, "properties"), EmptyObject),
               required |-> IF Has(schema, "required") THEN schema.required ELSE <<>>],
              "additionalProperties", schema, "additionalProperties")
    ELSE IF Truthy(GetString(schema, "type"))
    THEN [type |-> ToLowerCase(schema.type)]
    ELSE EmptyObject

convertGoogleGenAISchemaToJSONSchema(schema) ==
    IF schema = UndefinedObject THEN EmptyObject
    ELSE IF GetString(schema, "type") \in {"OBJECT", "object"}
    THEN [type |-> "object",
          properties |-> OrObject(GetObject(schema, "properties"), EmptyObject),
          required |-> IF Has(schema, "required") THEN schema.required ELSE <<>>,
          additionalProperties |-> IF Has(schema, "additionalProperties")
                                   THEN schema.additionalProperties # FALSE
                                   ELSE TRUE]
    ELSE IF Truthy(GetString(schema, "type"))
    THEN [type |-> ToLowerCase(schema.type)]
    ELSE EmptyObject

\* the tool built for one function declaration, client.ts:494-501
ConvertedTool(funcDecl) ==
    Copy([parameters |->
             [jsonSchema |->
                 convertGoogleGenAISchemaToJSONSchema(GetObject(funcDecl, "parameters"))]],
         "description", funcDecl, "description")

\* the named declarations of a tool list, in order, client.ts:488-507
RECURSIVE NamedDeclarations(_)
NamedDeclarations(tools) ==
    IF tools = <<>> THEN <<>>
    ELSE (IF Has(Head(tools), "functionDeclarations")
          THEN SelectSeq(Head(tools).functionDeclarations,
                         LAMBDA d : Truthy(GetString(d, "name")))
          ELSE <<>>)
         \o NamedDeclarations(Tail(tools))

\* convertedTools[funcDecl.name] = convertedTool: the last declaration of a name wins
ToolRecord(decls) ==
    [n \in {decls[i].name : i \in DOMAIN decls} |->
        ConvertedTool(decls[CHOOSE i \in DOMAIN decls :
                               /\ decls[i].name = n
                               /\ \A j \in DOMAIN decls : decls[j].name = n => j <= i])]

\* convertToolsToAISDK returning the mapping it built even when it is empty
convertToolsToAISDK_EmptyMapping(config) ==
    IF ~Has(config, "tools") THEN UndefinedObject
    ELSE ToolRecord(NamedDeclarations(config.tools))

convertToolsToAISDK(config) ==
    IF ~Has(config, "tools") THEN UndefinedObject
    ELSE IF NamedDeclarations(config.tools) = <<>> THEN UndefinedObject
    ELSE ToolRecord(NamedDeclarations(config.tools))

-----------------------------------------------------------------------------
(* convertToAISDKParams, client.ts:88-112 *)

BackendModel == "language-model"

\* 'auto' unless config.automaticFunctionCalling.disable is truthy, client.ts:108
ToolChoice(config) ==
    IF Has(GetObject(config, "automaticFunctionCalling"), "disable")
       /\ config.automaticFunctionCalling.disable
    THEN "none" ELSE "auto"

\* convertToAISDKParams with toolChoice set whether or not there are tools
convertToAISDKParams_ToolChoiceAlways(p, now) ==
    LET normalizedContents == normalizeContents(p.contents)
        config == OrObject(GetObject(p, "config"), EmptyObject)
        aiSdkTools == convertToolsToAISDK(config)
        base == WithString(
                    Copy(Copy(Copy([model |-> BackendModel,
                                    messages |-> convertContentsToMessages(
                                                     normalizedContents, now)],
                                   "temperature", config, "temperature"),
                              "maxTokens", config, "maxOutputTokens"),
                         "topP", config, "topP"),
                    "system", extractSystemMessage(normalizedContents))
    IN  IF aiSdkTools # UndefinedObject
        THEN Set(Set(base, "tools", aiSdkTools), "toolChoice", ToolChoice(config))
        ELSE Set(base, "toolChoice", ToolChoice(config))

convertToAISDKParams(p, now) ==
    LET normalizedContents == normalizeContents(p.contents)
        config == OrObject(GetObject(p, "config"), EmptyObject)
        aiSdkTools == convertToolsToAISDK(config)
        base == WithString(
                    Copy(Copy(Copy([model |-> BackendModel,
                                    messages |-> convertContentsToMessages(
                                                     normalizedContents, now)],
                                   "temperature", config, "temperature"),
                              "maxTokens", config, "maxOutputTokens"),
                         "topP", config, "topP"),
                    "system", extractSystemMessage(normalizedContents))
    IN  IF aiSdkTools # UndefinedObject
        THEN Set(Set(base, "tools", aiSdkTools), "toolChoice", ToolChoice(config))
        ELSE base

-----------------------------------------------------------------------------
(* convertToGoogleGenAIResponse, client.ts:114-189 *)

\* the text part, pushed only for a truthy result.text, client.ts:119-121
ResultTextParts(r) ==
    IF Truthy(GetString(r, "text")) THEN <<[text |-> r.text]>> ELSE <<>>

\* the history entry of one backend tool call, client.ts:128-137
CallEntry(toolCall) ==
    [role |-> "model",
     parts |-> <<[functionCall |->
                    [id |-> toolCall.toolCallId,
                     name |-> toolCall.toolName,
                     args |-> OrObject(GetObject(toolCall, "args"), EmptyObject)]]>>]

\* the history entry of one backend tool result, client.ts:144-153
ResultEntry(toolResult) ==
    [role |-> "user",
     parts |-> <<[functionResponse |->
                    [id |-> toolResult.toolCallId,
                     name |-> toolResult.toolName,
                     response |-> WithString(EmptyObject, "output",
                                             GetString(toolResult, "result"))]]>>]

\* the first pass, over result.toolCalls, client.ts:125-139
CallEntries(r) ==
    IF Has(r, "toolCalls")
    THEN [i \in DOMAIN r.toolCalls |-> CallEntry(r.toolCalls[i])]
    ELSE <<>>

\* the second pass, over result.toolResults, client.ts:141-155
ResultEntries(r) ==
    IF Has(r, "toolResults")
    THEN [i \in DOMAIN r.toolResults |-> ResultEntry(r.toolResults[i])]
    ELSE <<>>

\* ResponseParts without the empty text part pushed when there is no content
ResponseParts_NoFallback(r) == ResultTextParts(r)

\* the content parts of the candidate, client.ts:115-121 and 157-160
ResponseParts(r) ==
    IF Len(ResultTextParts(r)) = 0 THEN <<[text |-> ""]>> ELSE ResultTextParts(r)

\* convertToGoogleGenAIResponse with the two passes in the other order
convertToGoogleGenAIResponse_ResultsFirst(r, model) ==
    FullResponse(ResponseParts(r),
                 convertFinishReason(GetString(r, "finishReason")),
                 UsageMetadata(GetObject(r, "usage"), GetObject(r, "providerMetadata")),
                 model,
                 ResultEntries(r) \o CallEntries(r))

convertToGoogleGenAIResponse(r, model) ==
    FullResponse(ResponseParts(r),
                 convertFinishReason(GetString(r, "finishReason")),
                 UsageMetadata(GetObject(r, "usage"), GetObject(r, "providerMetadata")),
                 model,
                 CallEntries(r) \o ResultEntries(r))

-----------------------------------------------------------------------------
(* convertStreamToGoogleGenAI, client.ts:191-318 *)

\* the functionCall part built for a tool-call chunk, client.ts:208-214
FunctionCallPart(chunk) ==
    [functionCall |-> [id |-> chunk.toolCallId,
                       name |-> chunk.toolName,
                       args |-> OrObject(GetObject(chunk, "args"), EmptyObject)]]

\* ChunkParts with a tool-result chunk forwarded as a functionResponse part
ChunkParts_ForwardsToolResult(chunk) ==
    IF chunk.type = "text-delta" THEN <<[text |-> chunk.textDelta]>>
    ELSE IF chunk.type = "tool-call" THEN <<FunctionCallPart(chunk)>>
    ELSE IF chunk.type = "tool-result"
    THEN <<[functionResponse |-> [id |-> chunk.toolCallId, name |-> chunk.toolName,
                                  response |-> [output |-> chunk.result]]]>>
    ELSE <<>>

\* parts pushed for one chunk, client.ts:201-243
ChunkParts(chunk) ==
    IF chunk.type = "text-delta" THEN <<[text |-> chunk.textDelta]>>
    ELSE IF chunk.type = "tool-call" THEN <<FunctionCallPart(chunk)>>
    ELSE <<>>

\* accumulatedText after one chunk, client.ts:205
ChunkText(text, chunk) ==
    IF chunk.type = "text-delta" THEN text \o chunk.textDelta ELSE text

\* pendingToolCalls after one chunk, client.ts:220-223
ChunkPending(pending, chunk) ==
    IF chunk.type = "tool-call"
    THEN MapSet(pending, chunk.toolCallId,
                [functionCall |-> FunctionCallPart(chunk), toolName |-> chunk.toolName])
    ELSE pending

\* ChunkYield with text deltas held back instead of yielded one by one
ChunkYield_TextHeldBack(chunk, model) ==
    IF chunk.type = "tool-call"
    THEN <<PartialResponse(ChunkParts(chunk), model)>>
    ELSE <<>>

\* the responses yielded for one chunk, client.ts:245-261
ChunkYield(chunk, model) ==
    IF Len(ChunkParts(chunk)) > 0
    THEN <<PartialResponse(ChunkParts(chunk), model)>>
    ELSE <<>>

\* the error thrown for an error chunk, client.ts:230-235
StreamError(chunk) ==
    [name |-> "Error",
     message |-> Or(GetString(GetObject(chunk, "error"), "message"), "No message"),
     stack |-> Or(GetString(GetObject(chunk, "error"), "stack"), "No stack"),
     fullChunk |-> chunk]

\* PendingPair with a result entry that carries no output
PendingPair_NoOutput(entry) ==
    <<[role |-> "model", parts |-> <<entry.value.functionCall>>],
      [role |-> "user",
       parts |-> <<[functionResponse |->
                      [id |-> entry.key,
                       name |-> entry.value.toolName,
                       response |-> EmptyObject]]>>]>>

\* the history pair of one pending call, client.ts:288-304
PendingPair(entry) ==
    <<[role |-> "model", parts |-> <<entry.value.functionCall>>],
      [role |-> "user",
       parts |-> <<[functionResponse |->
                      [id |-> entry.key,
                       name |-> entry.value.toolName,
                       response |-> [output |-> "Tool executed by existing system"]]]>>]>>

\* PendingHistory with all the call entries before all the result entries
PendingHistory_Grouped(pending) ==
    [i \in DOMAIN pending |-> PendingPair(pending[i])[1]]
    \o [i \in DOMAIN pending |-> PendingPair(pending[i])[2]]

\* the loop over pendingToolCalls, client.ts:287-305
RECURSIVE PendingHistory(_)
PendingHistory(pending) ==
    IF pending = <<>> THEN <<>>
    ELSE PendingPair(Head(pending)) \o PendingHistory(Tail(pending))

\* finalResponse, client.ts:269-315
FinalResponse(usage, finishReason, providerMetadata, pending, model) ==
    FullResponse(<<[text |-> ""]>>,
                 convertFinishReason(finishReason),
                 UsageMetadata(usage, providerMetadata),
                 model,
                 PendingHistory(pending))

\* NextChunk with an error chunk logged and skipped like an unknown chunk
NextChunk_ErrorSkipped(chunk) ==
    /\ call = "stream"
    /\ pc = "loop"
    /\ Len(consumed) < MaxEvents
    /\ consumed' = Append(consumed, chunk)
    /\ accumulatedText' = ChunkText(accumulatedText, chunk)
    /\ pendingToolCalls' = ChunkPending(pendingToolCalls, chunk)
    /\ yielded' = yielded \o ChunkYield(chunk, GetString(params, "model"))
    /\ UNCHANGED <<thrown, pc>>
    /\ UNCHANGED <<call, resolved, finalUsage, finalFinishReason, finalProviderMetadata,
                   result, response, params, aiSdkParams,
                   backendError, streams>>

\* one iteration of `for await (const chunk of stream.fullStream)`
NextChunk(chunk) ==
    /\ call = "stream"
    /\ pc = "loop"
    /\ Len(consumed) < MaxEvents
    /\ consumed' = Append(consumed, chunk)
    /\ IF chunk.type = "error"
       THEN /\ thrown' = StreamError(chunk)
            /\ pc' = "failed"
            /\ UNCHANGED <<accumulatedText, pendingToolCalls, yielded>>
       ELSE /\ accumulatedText' = ChunkText(accumulatedText, chunk)
            /\ pendingToolCalls' = ChunkPending(pendingToolCalls, chunk)
            /\ yielded' = yielded \o ChunkYield(chunk, GetString(params, "model"))
            /\ UNCHANGED <<thrown, pc>>
    /\ UNCHANGED <<call, resolved, finalUsage, finalFinishReason, finalProviderMetadata,
                   result, response, params, aiSdkParams,
                   backendError, streams>>

\* StreamEnds with the loop waiting for another chunk instead of exiting
StreamEnds_NeverExits ==
    /\ call = "stream"
    /\ pc = "loop"
    /\ pc' = "loop"
    /\ UNCHANGED <<call, consumed, accumulatedText, pendingToolCalls, yielded, thrown,
                   resolved, finalUsage, finalFinishReason, finalProviderMetadata,
                   result, response, params, aiSdkParams, backendError, streams>>

\* stream.fullStream is exhausted: the loop exits
StreamEnds ==
    /\ call = "stream"
    /\ pc = "loop"
    /\ pc' = "awaitUsage"
    /\ UNCHANGED <<call, consumed, accumulatedText, pendingToolCalls, yielded, thrown,
                   resolved, finalUsage, finalFinishReason, finalProviderMetadata,
                   result, response, params, aiSdkParams,
                   backendError, streams>>

\* const finalUsage = await stream.usage
AwaitUsage(u) ==
    /\ call = "stream"
    /\ pc = "awaitUsage"
    /\ finalUsage' = u
    /\ resolved' = resolved \cup {"usage"}
    /\ pc' = "awaitFinishReason"
    /\ UNCHANGED <<call, consumed, accumulatedText, pendingToolCalls, yielded, thrown,
                   finalFinishReason, finalProviderMetadata,
                   result, response, params, aiSdkParams,
                   backendError, streams>>

\* const finalFinishReason = await stream.finishReason
AwaitFinishReason(r) ==
    /\ call = "stream"
    /\ pc = "awaitFinishReason"
    /\ finalFinishReason' = r
    /\ resolved' = resolved \cup {"finishReason"}
    /\ pc' = "awaitProviderMetadata"
    /\ UNCHANGED <<call, consumed, accumulatedText, pendingToolCalls, yielded, thrown,
                   finalUsage, finalProviderMetadata,
                   result, response, params, aiSdkParams,
                   backendError, streams>>

\* const finalProviderMetadata = await stream.providerMetadata, then the code to
\* `yield finalResponse`, which runs without suspending
AwaitProviderMetadata(m) ==
    /\ call = "stream"
    /\ pc = "awaitProviderMetadata"
    /\ finalProviderMetadata' = m
    /\ resolved' = resolved \cup {"providerMetadata"}
    /\ yielded' = Append(yielded,
                         FinalResponse(finalUsage, finalFinishReason, m,
                                       pendingToolCalls, GetString(params, "model")))
    /\ pc' = "final"
    /\ UNCHANGED <<call, consumed, accumulatedText, pendingToolCalls, thrown,
                   finalUsage, finalFinishReason,
                   result, response, params, aiSdkParams,
                   backendError, streams>>

\* the pull after the final response: the generator returns
Return ==
    /\ call = "stream"
    /\ pc = "final"
    /\ pc' = "done"
    /\ UNCHANGED <<call, consumed, accumulatedText, pendingToolCalls, yielded, thrown,
                   resolved, finalUsage, finalFinishReason, finalProviderMetadata,
                   result, response, params, aiSdkParams,
                   backendError, streams>>

-----------------------------------------------------------------------------
(* generateContent and generateContentStream, client.ts:42-66 *)

\* generateContent: the request is converted, generateText resolves or throws,
\* and the result is converted
GenerateContent(p, now) ==
    /\ pc = "idle"
    /\ call' = "generate"
    /\ params' = p
    /\ aiSdkParams' = convertToAISDKParams(p, now)
    /\ \/ \E r \in Results :
             /\ result' = r
             /\ response' = convertToGoogleGenAIResponse(r, GetString(p, "model"))
             /\ pc' = "returned"
             /\ UNCHANGED <<thrown, backendError>>
       \/ \E e \in BackendErrors :
             /\ backendError' = e
             /\ thrown' = [name |-> "Error",
                           message |-> "AI SDK generateText failed: " \o ErrorToString(e)]
             /\ pc' = "failed"
             /\ UNCHANGED <<result, response>>
    /\ UNCHANGED <<consumed, accumulatedText, pendingToolCalls, yielded, resolved,
                   finalUsage, finalFinishReason, finalProviderMetadata, streams>>

\* generateContentStream: the request is converted, streamText resolves and the
\* generator is handed to the caller, or streamText throws
GenerateContentStream(p, now) ==
    /\ pc = "idle"
    /\ call' = "stream"
    /\ params' = p
    /\ aiSdkParams' = convertToAISDKParams(p, now)
    /\ \/ /\ pc' = "loop"
          /\ UNCHANGED <<thrown, backendError>>
       \/ \E e \in BackendErrors :
             /\ backendError' = e
             /\ thrown' = [name |-> "Error",
                           message |-> "AI SDK streamText failed: " \o ErrorToString(e)]
             /\ pc' = "failed"
    /\ UNCHANGED <<consumed, accumulatedText, pendingToolCalls, yielded, resolved,
                   finalUsage, finalFinishReason, finalProviderMetadata, result, response,
                   streams>>

\* the requests of embedContent
EmbedInputs ==
    {[contents |-> [string |-> "Hello"]],
     [contents |-> [array |-> <<[string |-> "Hello"]>>], model |-> "embedding-model"]}

\* embedContent returning a response without embeddings
EmbedContent_ReturnsEmpty(p) ==
    /\ pc = "idle"
    /\ call' = "embed"
    /\ params' = p
    /\ response' = [embeddings |-> <<>>]
    /\ pc' = "returned"
    /\ UNCHANGED <<thrown, consumed, accumulatedText, pendingToolCalls, yielded, resolved,
                   finalUsage, finalFinishReason, finalProviderMetadata, result,
                   aiSdkParams, backendError, streams>>

\* embedContent, client.ts:80-85: throws without reading the request
EmbedContent(p) ==
    /\ pc = "idle"
    /\ call' = "embed"
    /\ params' = p
    /\ thrown' = [name |-> "Error",
                  message |-> "Embedding not yet implemented for AI SDK client"]
    /\ pc' = "failed"
    /\ UNCHANGED <<consumed, accumulatedText, pendingToolCalls, yielded, resolved,
                   finalUsage, finalFinishReason, finalProviderMetadata, result, response,
                   aiSdkParams, backendError, streams>>

\* convertToAISDKParams alone, on the request a caller has handed over
ConvertToAISDKParams(now) ==
    /\ call = "params"
    /\ pc = "idle"
    /\ aiSdkParams' = convertToAISDKParams(params, now)
    /\ pc' = "converted"
    /\ UNCHANGED <<call, params, consumed, accumulatedText, pendingToolCalls, yielded,
                   thrown, resolved, finalUsage, finalFinishReason, finalProviderMetadata,
                   result, response, backendError, streams>>

-----------------------------------------------------------------------------
(* Calls made side by side through one client.  The accumulators of
   convertStreamToGoogleGenAI are locals of each generator (client.ts:195-197);
   the only field of the client is its config (client.ts:40). *)

CallIds == {1, 2}

\* the backend events of the streams that run side by side
SideChunks ==
    {[type |-> "text-delta", textDelta |-> "Hi"],
     [type |-> "tool-call", toolCallId |-> "c1", toolName |-> "search", args |-> ArgsQ],
     [type |-> "tool-call", toolCallId |-> "c2", toolName |-> "read"],
     [type |-> "error", error |-> [message |-> "boom", stack |-> "at backend"]]}

SideFinishReasons == {"stop", "tool-calls"}

SideUsages == {[promptTokens |-> 3, completionTokens |-> 2, totalTokens |-> 5]}

SideProviderMetadatas == {UndefinedObject}

\* a call that has not been made
NoGenerator == [pc |-> "idle"]

\* the generator convertStreamToGoogleGenAI returns, before its first pull
NewGenerator(p, converted) ==
    [pc |-> "loop",
     params |-> p,
     aiSdkParams |-> converted,
     consumed |-> <<>>,
     accumulatedText |-> "",
     pendingToolCalls |-> <<>>,
     yielded |-> <<>>,
     thrown |-> UndefinedObject,
     finalUsage |-> UndefinedObject,
     finalFinishReason |-> Undefined,
     finalProviderMetadata |-> UndefinedObject]

\* the variables of the single call that Spec and SpecParams follow
single == <<call, pc, consumed, accumulatedText, pendingToolCalls, yielded, thrown,
            resolved, finalUsage, finalFinishReason, finalProviderMetadata,
            result, response, params, aiSdkParams, backendError>>

\* generateContentStream for call i
GenerateContentStreamIn(i, p, now) ==
    /\ streams[i].pc = "idle"
    /\ \/ streams' = [streams EXCEPT ![i] = NewGenerator(p, convertToAISDKParams(p, now))]
       \/ \E e \in BackendErrors :
             streams' = [streams EXCEPT ![i] =
                            [pc |-> "failed",
                             params |-> p,
                             aiSdkParams |-> convertToAISDKParams(p, now),
                             yielded |-> <<>>,
                             thrown |-> [name |-> "Error",
                                         message |-> "AI SDK streamText failed: "
                                                     \o ErrorToString(e)]]]
    /\ UNCHANGED single

\* the generator of call i after one chunk of its backend stream
AfterChunk(g, chunk) ==
    IF chunk.type = "error"
    THEN [g EXCEPT !.consumed = Append(@, chunk),
                   !.thrown = StreamError(chunk),
                   !.pc = "failed"]
    ELSE [g EXCEPT !.consumed = Append(@, chunk),
                   !.accumulatedText = ChunkText(@, chunk),
                   !.pendingToolCalls = ChunkPending(@, chunk),
                   !.yielded = @ \o ChunkYield(chunk, GetString(g.params, "model"))]

\* NextChunkIn with pendingToolCalls held by the client and so seen by every
\* generator in its loop
NextChunkIn_SharedPending(i, chunk) ==
    /\ streams[i].pc = "loop"
    /\ Len(streams[i].consumed) < MaxPulls
    /\ streams' = [j \in CallIds |->
                      IF j = i THEN AfterChunk(streams[i], chunk)
                      ELSE IF streams[j].pc = "loop"
                      THEN [streams[j] EXCEPT !.pendingToolCalls =
                               AfterChunk(streams[i], chunk).pendingToolCalls]
                      ELSE streams[j]]
    /\ UNCHANGED single

\* one iteration of the loop of call i's generator
NextChunkIn(i, chunk) ==
    /\ streams[i].pc = "loop"
    /\ Len(streams[i].consumed) < MaxPulls
    /\ streams' = [streams EXCEPT ![i] = AfterChunk(@, chunk)]
    /\ UNCHANGED single

\* the backend stream of call i is exhausted
StreamEndsIn(i) ==
    /\ streams[i].pc = "loop"
    /\ streams' = [streams EXCEPT ![i].pc = "awaitUsage"]
    /\ UNCHANGED single

AwaitUsageIn(i, u) ==
    /\ streams[i].pc = "awaitUsage"
    /\ streams' = [streams EXCEPT ![i].finalUsage = u, ![i].pc = "awaitFinishReason"]
    /\ UNCHANGED single

AwaitFinishReasonIn(i, r) ==
    /\ streams[i].pc = "awaitFinishReason"
    /\ streams' = [streams EXCEPT ![i].finalFinishReason = r,
                                  ![i].pc = "awaitProviderMetadata"]
    /\ UNCHANGED single

\* the last await of call i's generator, then its `yield finalResponse`
AwaitProviderMetadataIn(i, m) ==
    /\ streams[i].pc = "awaitProviderMetadata"
    /\ streams' = [streams EXCEPT
                      ![i].finalProviderMetadata = m,
                      ![i].yielded =
                          Append(@, FinalResponse(streams[i].finalUsage,
                                                  streams[i].finalFinishReason, m,
                                                  streams[i].pendingToolCalls,
                                                  GetString(streams[i].params, "model"))),
                      ![i].pc = "final"]
    /\ UNCHANGED single

\* the pull after the final response of call i
ReturnIn(i) ==
    /\ streams[i].pc = "final"
    /\ streams' = [streams EXCEPT ![i].pc = "done"]
    /\ UNCHANGED single

-----------------------------------------------------------------------------

\* the client after construction: no call in flight
Init ==
    /\ call = "none"
    /\ pc = "idle"
    /\ consumed = <<>>
    /\ accumulatedText = ""
    /\ pendingToolCalls = <<>>
    /\ yielded = <<>>
    /\ thrown = UndefinedObject
    /\ resolved = {}
    /\ finalUsage = UndefinedObject
    /\ finalFinishReason = Undefined
    /\ finalProviderMetadata = UndefinedObject
    /\ result = UndefinedObject
    /\ response = UndefinedObject
    /\ params = UndefinedObject
    /\ aiSdkParams = UndefinedObject
    /\ backendError = UndefinedObject
    /\ streams = [i \in CallIds |-> NoGenerator]

Next ==
    \/ \E p \in CallInputs, now \in Clock : GenerateContent(p, now)
    \/ \E p \in CallInputs, now \in Clock : GenerateContentStream(p, now)
    \/ \E p \in EmbedInputs : EmbedContent(p)
    \/ \E chunk \in Chunks : NextChunk(chunk)
    \/ StreamEnds
    \/ \E u \in Usages : AwaitUsage(u)
    \/ \E r \in BackendFinishReasons : AwaitFinishReason(r)
    \/ \E m \in ProviderMetadatas : AwaitProviderMetadata(m)
    \/ Return

Spec == Init /\ [][Next]_vars

\* a pull of the consumer on the generator: the generator runs to its next
\* yield, its return or its throw
Pull ==
    \/ \E chunk \in Chunks : NextChunk(chunk)
    \/ StreamEnds
    \/ \E u \in Usages : AwaitUsage(u)
    \/ \E r \in BackendFinishReasons : AwaitFinishReason(r)
    \/ \E m \in ProviderMetadatas : AwaitProviderMetadata(m)
    \/ Return

\* Spec with a consumer that keeps pulling, a backend stream that ends and
\* promises that resolve
SpecFair == Init /\ [][Next]_vars /\ WF_vars(Pull)

\* the steps of the calls made side by side, in any interleaving
NextConcurrent ==
    \E i \in CallIds :
        \/ \E p \in CallInputs, now \in Clock : GenerateContentStreamIn(i, p, now)
        \/ \E chunk \in SideChunks : NextChunkIn(i, chunk)
        \/ StreamEndsIn(i)
        \/ \E u \in SideUsages : AwaitUsageIn(i, u)
        \/ \E r \in SideFinishReasons : AwaitFinishReasonIn(i, r)
        \/ \E m \in SideProviderMetadatas : AwaitProviderMetadataIn(i, m)
        \/ ReturnIn(i)

SpecConcurrent == Init /\ [][NextConcurrent]_vars

\* params is a Content[] of size at most n that starts with prefix
RECURSIVE RequestFrom(_, _)
RequestFrom(prefix, n) ==
    \/ params = [contents |-> [array |-> prefix]]
    \/ /\ n >= 1
       /\ \E content \in Contents(n) :
             RequestFrom(Append(prefix, content), n - 1 - Len(content.parts))

\* a request of bounded size has been handed to convertToAISDKParams
InitParams ==
    /\ call = "params"
    /\ pc = "idle"
    /\ consumed = <<>>
    /\ accumulatedText = ""
    /\ pendingToolCalls = <<>>
    /\ yielded = <<>>
    /\ thrown = UndefinedObject
    /\ resolved = {}
    /\ finalUsage = UndefinedObject
    /\ finalFinishReason = Undefined
    /\ finalProviderMetadata = UndefinedObject
    /\ result = UndefinedObject
    /\ response = UndefinedObject
    /\ aiSdkParams = UndefinedObject
    /\ backendError = UndefinedObject
    /\ streams = [i \in CallIds |-> NoGenerator]
    /\ \/ RequestFrom(<<>>, MaxSize)
       \/ params \in OtherParams

NextParams == \E now \in Clock : ConvertToAISDKParams(now)

SpecParams == InitParams /\ [][NextParams]_vars

-----------------------------------------------------------------------------
(* What the properties below read off a state *)

Last(seq) == seq[Len(seq)]
Front(seq) == SubSeq(seq, 1, Len(seq) - 1)

\* the stream has yielded its final response
StreamFinished == call = "stream" /\ pc \in {"final", "done"}

\* the blocking call has returned
Returned == call = "generate" /\ pc = "returned"

\* the request has been converted
Converted == call = "params" /\ pc = "converted"

\* automaticFunctionCallingHistory, empty when the response has none
History(r) ==
    IF Has(r, "automaticFunctionCallingHistory")
    THEN r.automaticFunctionCallingHistory ELSE <<>>

\* a {role: model, functionCall} entry
IsCallEntry(e) == e.role = "model" /\ Len(e.parts) = 1 /\ Has(e.parts[1], "functionCall")

\* a {role: user, functionResponse} entry
IsResultEntry(e) ==
    e.role = "user" /\ Len(e.parts) = 1 /\ Has(e.parts[1], "functionResponse")

IsToolCallEvent(chunk) == chunk.type = "tool-call"
IsToolResultEvent(chunk) == chunk.type = "tool-result"
IsErrorEvent(chunk) == chunk.type = "error"

\* a step-start event, a tool-result event or an event of an unrecognized type
IsSkippedEvent(chunk) ==
    \/ chunk.type \in {"step-start", "tool-result"}
    \/ chunk.type \notin {"text-delta", "tool-call", "error"}

IsKeptEvent(chunk) == ~IsSkippedEvent(chunk)

ToolCallEvents == SelectSeq(consumed, IsToolCallEvent)

\* the ids of a sequence of tool-call events, each once, in order of first proposal
RECURSIVE FirstProposals(_)
FirstProposals(events) ==
    IF events = <<>> THEN <<>>
    ELSE LET before == FirstProposals(Front(events))
         IN  IF \E i \in DOMAIN before : before[i] = Last(events).toolCallId
             THEN before
             ELSE Append(before, Last(events).toolCallId)

\* a response that carries neither a finish reason nor usage metadata
IsOpen(r) == ~Has(r.candidates[1], "finishReason") /\ ~Has(r, "usageMetadata")

-----------------------------------------------------------------------------
(* C1 *)

\* C1 as stated: after a stream with N tool-call events and no tool-result event,
\* the final response's history is N call entries followed by N result entries,
\* the i-th result carrying the id of the i-th call.
C1_HistoryCallsThenResults ==
    (StreamFinished /\ SelectSeq(consumed, IsToolResultEvent) = <<>>) =>
        LET h == History(Last(yielded))
            n == Len(ToolCallEvents)
        IN  /\ Len(h) = 2 * n
            /\ \A i \in 1..n :
                 /\ IsCallEntry(h[i])
                 /\ IsResultEntry(h[n + i])
                 /\ h[n + i].parts[1].functionResponse.id = h[i].parts[1].functionCall.id

\* C1 amended: after a stream with no tool-result event, the final response's
\* history holds one adjacent pair per distinct tool-call id, in order of first
\* proposal: a call entry immediately followed by the result entry of the same
\* id; the history is absent when the stream proposed no tool call.
C1_HistoryPairsPerId ==
    (StreamFinished /\ SelectSeq(consumed, IsToolResultEvent) = <<>>) =>
        LET h == History(Last(yielded))
            ids == FirstProposals(ToolCallEvents)
        IN  /\ Len(h) = 2 * Len(ids)
            /\ Has(Last(yielded), "automaticFunctionCallingHistory") <=> Len(ids) > 0
            /\ \A k \in 1..Len(ids) :
                 /\ IsCallEntry(h[2 * k - 1])
                 /\ h[2 * k - 1].parts[1].functionCall.id = ids[k]
                 /\ IsResultEntry(h[2 * k])
                 /\ h[2 * k].parts[1].functionResponse.id = ids[k]

\* a finished stream that proposed two calls with different ids and no tool result
C1_Witness ==
    /\ StreamFinished
    /\ SelectSeq(consumed, IsToolResultEvent) = <<>>
    /\ Len(FirstProposals(ToolCallEvents)) = 2
    /\ Len(History(Last(yielded))) = 4

-----------------------------------------------------------------------------
(* C2 *)

\* the text of all the system turns of a content list, concatenated in order
RECURSIVE AllSystemText(_)
AllSystemText(contents) ==
    IF contents = <<>> THEN ""
    ELSE (IF IsSystem(Head(contents)) THEN JoinText(Head(contents).parts) ELSE "")
         \o AllSystemText(Tail(contents))

\* C2 as stated: the system text handed to the backend is the concatenation, in
\* input order, of the text of all system turns, and is absent only when the
\* input has no system turn.
C2_SystemTextOfAllSystemTurns ==
    Converted =>
        LET contents == normalizeContents(params.contents)
        IN  IF SelectSeq(contents, IsSystem) = <<>>
            THEN ~Has(aiSdkParams, "system")
            ELSE /\ Has(aiSdkParams, "system")
                 /\ aiSdkParams.system = AllSystemText(contents)

-----------------------------------------------------------------------------
(* C3 *)

\* the tool-result blocks of the non-system turns of a content list, in order
RECURSIVE ResultBlocks(_)
ResultBlocks(contents) ==
    IF contents = <<>> THEN <<>>
    ELSE (IF IsSystem(Head(contents)) THEN <<>>
          ELSE SelectSeq(Head(contents).parts, HasFunctionResponse))
         \o ResultBlocks(Tail(contents))

IsToolMessage(m) == m.role = "tool"

\* C3: the tool messages are, in order, the tool-result blocks of the non-system
\* turns, one message per block holding that block alone, and no user or
\* assistant message holds a tool result.
C3_OneToolMessagePerResult ==
    Converted =>
        LET messages == aiSdkParams.messages
            tools == SelectSeq(messages, IsToolMessage)
            blocks == ResultBlocks(normalizeContents(params.contents))
        IN  /\ Len(tools) = Len(blocks)
            /\ \A i \in DOMAIN tools :
                 /\ Len(tools[i].content) = 1
                 /\ tools[i].content[1].type = "tool-result"
                 /\ tools[i].content[1].toolCallId = blocks[i].functionResponse.id
                 /\ tools[i].content[1].toolName = blocks[i].functionResponse.name
            /\ \A i \in DOMAIN messages :
                 messages[i].role # "tool" =>
                     /\ messages[i].role \in {"user", "assistant"}
                     /\ \A j \in DOMAIN messages[i].content :
                          messages[i].content[j].type # "tool-result"

\* a converted request with a turn that has text and two tool results
C3_Witness ==
    /\ Converted
    /\ IsArray(params.contents)
    /\ \E i \in DOMAIN params.contents.array :
         LET content == params.contents.array[i]
         IN  /\ Has(content, "parts")
             /\ content.role = "user"
             /\ Truthy(TurnText(content))
             /\ Len(SelectSeq(content.parts, HasFunctionResponse)) = 2
    /\ Len(SelectSeq(aiSdkParams.messages, IsToolMessage)) = 2

-----------------------------------------------------------------------------
(* C4 *)

AllPromises == {"usage", "finishReason", "providerMetadata"}

\* C4: a stream yields its final response last and only once: the response with
\* usage is yielded after the backend stream is exhausted and the three promises
\* have resolved, its content is one empty text block, and every response before
\* it has neither a finish reason nor usage metadata.
C4_FinalResponseIsLast ==
    call = "stream" =>
        /\ \A i \in DOMAIN yielded :
             (i < Len(yielded) \/ ~StreamFinished) => IsOpen(yielded[i])
        /\ StreamFinished =>
             /\ Len(yielded) >= 1
             /\ Has(Last(yielded), "usageMetadata")
             /\ Last(yielded).candidates[1].content.parts = <<[text |-> ""]>>
             /\ resolved = AllPromises
             /\ SelectSeq(consumed, IsErrorEvent) = <<>>
        /\ pc \in {"awaitUsage", "awaitFinishReason", "awaitProviderMetadata"} =>
             resolved # AllPromises

\* a stream that has completed after two partial responses and the final one
C4_Witness ==
    /\ call = "stream"
    /\ pc = "done"
    /\ Len(yielded) = 3
    /\ IsOpen(yielded[1])
    /\ IsOpen(yielded[2])
    /\ ~IsOpen(yielded[3])

-----------------------------------------------------------------------------
(* C5 *)

\* the number of events of a sequence that yield a partial response
YieldingEvents(events) ==
    Len(SelectSeq(events, LAMBDA c : c.type \in {"text-delta", "tool-call"}))

\* C5: an error event ends the stream at once with an error that carries the
\* backend error's message; what was yielded before stays yielded, nothing is
\* yielded after it, and no response with a finish reason or usage is ever
\* emitted.
C5_ErrorEventAbortsStream ==
    (call = "stream" /\ SelectSeq(consumed, IsErrorEvent) # <<>>) =>
        /\ IsErrorEvent(Last(consumed))
        /\ Len(SelectSeq(consumed, IsErrorEvent)) = 1
        /\ pc = "failed"
        /\ thrown # UndefinedObject
        /\ Has(GetObject(Last(consumed), "error"), "message") =>
             thrown.message = Last(consumed).error.message
        /\ Len(yielded) = YieldingEvents(consumed)
        /\ \A i \in DOMAIN yielded : IsOpen(yielded[i])

\* a stream that failed on an error event after it had yielded partial responses
C5_Witness ==
    /\ call = "stream"
    /\ pc = "failed"
    /\ Len(yielded) = 2
    /\ IsErrorEvent(Last(consumed))
    /\ thrown.message = "boom"

-----------------------------------------------------------------------------
(* C6 *)

\* the partial responses a sequence of events yields
RECURSIVE YieldsOf(_, _)
YieldsOf(events, model) ==
    IF events = <<>> THEN <<>>
    ELSE ChunkYield(Head(events), model) \o YieldsOf(Tail(events), model)

\* accumulatedText after a sequence of events
RECURSIVE TextOf(_)
TextOf(events) ==
    IF events = <<>> THEN "" ELSE ChunkText(TextOf(Front(events)), Last(events))

\* pendingToolCalls after a sequence of events
RECURSIVE PendingOf(_)
PendingOf(events) ==
    IF events = <<>> THEN <<>> ELSE ChunkPending(PendingOf(Front(events)), Last(events))

\* C6: step-start, tool-result and unrecognized events yield nothing, change
\* neither accumulatedText nor pendingToolCalls and never abort the stream: the
\* state and the responses of a stream are those of the stream without them.
C6_SkippedEventsChangeNothing ==
    (call = "stream" /\ pc # "idle") =>
        LET kept == SelectSeq(consumed, IsKeptEvent)
            model == GetString(params, "model")
        IN  /\ accumulatedText = TextOf(kept)
            /\ pendingToolCalls = PendingOf(kept)
            /\ (IF StreamFinished THEN Front(yielded) ELSE yielded) = YieldsOf(kept, model)
            /\ StreamFinished =>
                 Last(yielded) = FinalResponse(finalUsage, finalFinishReason,
                                               finalProviderMetadata, PendingOf(kept), model)
            /\ (pc = "failed" /\ consumed # <<>>) => IsErrorEvent(Last(consumed))

\* a completed stream whose events were a text delta, a skipped event and a tool call
C6_Witness ==
    /\ call = "stream"
    /\ pc = "done"
    /\ Len(consumed) = 3
    /\ consumed[1].type = "text-delta"
    /\ IsSkippedEvent(consumed[2])
    /\ consumed[3].type = "tool-call"
    /\ Len(yielded) = 3

-----------------------------------------------------------------------------
(* C7 and C8 *)

\* the mapping table of the finish reasons
FinishReasonTable ==
    {<<"stop", "STOP">>, <<"length", "MAX_TOKENS">>, <<"content-filter", "SAFETY">>,
     <<"tool-calls", "STOP">>, <<"error", "OTHER">>, <<"other", "OTHER">>}

TableReasons == {row[1] : row \in FinishReasonTable}

\* the candidate carries what the table gives for reason, and no finish reason
\* for an undefined reason
FollowsTable(reason, candidate) ==
    /\ \A row \in FinishReasonTable :
         reason = row[1] =>
             Has(candidate, "finishReason") /\ candidate.finishReason = row[2]
    /\ reason = Undefined => ~Has(candidate, "finishReason")

\* C7: in the blocking response and in the final streamed response the finish
\* reason is the table's value for the backend's reason, and is unset for an
\* undefined reason.
C7_FinishReasonFollowsTable ==
    /\ Returned => FollowsTable(GetString(result, "finishReason"), response.candidates[1])
    /\ StreamFinished => FollowsTable(finalFinishReason, Last(yielded).candidates[1])

\* a stream finished with backend reason tool-calls
C7_Witness ==
    /\ StreamFinished
    /\ finalFinishReason = "tool-calls"
    /\ Last(yielded).candidates[1].finishReason = "STOP"

\* C8 as stated: a backend finish reason outside the table gives finish reason
\* OTHER in the final streamed response and in the blocking response.
C8_UnknownReasonBecomesOther ==
    /\ (Returned /\ Has(result, "finishReason") /\ result.finishReason \notin TableReasons) =>
           /\ Has(response.candidates[1], "finishReason")
           /\ response.candidates[1].finishReason = "OTHER"
    /\ (StreamFinished /\ finalFinishReason \notin TableReasons \cup {Undefined}) =>
           /\ Has(Last(yielded).candidates[1], "finishReason")
           /\ Last(yielded).candidates[1].finishReason = "OTHER"

\* C8 amended: a backend finish reason outside the table gives an unset finish
\* reason in the final streamed response and in the blocking response, and the
\* responses yielded while the stream is open carry no finish reason either.
C8_UnknownReasonStaysUnset ==
    /\ (Returned /\ Has(result, "finishReason") /\ result.finishReason \notin TableReasons) =>
           ~Has(response.candidates[1], "finishReason")
    /\ (StreamFinished /\ finalFinishReason \notin TableReasons \cup {Undefined}) =>
           ~Has(Last(yielded).candidates[1], "finishReason")
    /\ (call = "stream" /\ ~StreamFinished) =>
           \A i \in DOMAIN yielded : ~Has(yielded[i].candidates[1], "finishReason")

\* a stream finished with a backend reason outside the table
C8_Witness ==
    /\ StreamFinished
    /\ finalFinishReason = "unknown"
    /\ Len(yielded) >= 2

-----------------------------------------------------------------------------
(* C9 and C10 *)

ResultToolCallsOf(r) == IF Has(r, "toolCalls") THEN r.toolCalls ELSE <<>>
ResultToolResultsOf(r) == IF Has(r, "toolResults") THEN r.toolResults ELSE <<>>

\* C9 as stated: every tool call of the backend result is a functionCall block of
\* the response candidate's content parts, with the backend's id and name and
\* with missing args replaced by the empty mapping.
C9_ToolCallsInContentParts ==
    Returned =>
        LET parts == response.candidates[1].content.parts
            toolCalls == ResultToolCallsOf(result)
        IN  \A i \in DOMAIN toolCalls :
                \E j \in DOMAIN parts :
                    /\ Has(parts[j], "functionCall")
                    /\ parts[j].functionCall.id = toolCalls[i].toolCallId
                    /\ parts[j].functionCall.name = toolCalls[i].toolName
                    /\ parts[j].functionCall.args =
                           (IF Has(toolCalls[i], "args") THEN toolCalls[i].args
                            ELSE EmptyObject)

\* C10: the blocking response's history is one call entry per backend tool call,
\* in backend order, then one result entry per backend tool result, in backend
\* order.
C10_HistoryCallsThenResults ==
    Returned =>
        LET h == History(response)
            toolCalls == ResultToolCallsOf(result)
            toolResults == ResultToolResultsOf(result)
        IN  /\ Len(h) = Len(toolCalls) + Len(toolResults)
            /\ \A i \in DOMAIN toolCalls :
                 /\ IsCallEntry(h[i])
                 /\ h[i].parts[1].functionCall.id = toolCalls[i].toolCallId
                 /\ h[i].parts[1].functionCall.name = toolCalls[i].toolName
            /\ \A j \in DOMAIN toolResults :
                 /\ IsResultEntry(h[Len(toolCalls) + j])
                 /\ h[Len(toolCalls) + j].parts[1].functionResponse.id =
                        toolResults[j].toolCallId
                 /\ h[Len(toolCalls) + j].parts[1].functionResponse.name =
                        toolResults[j].toolName
            /\ \A i, j \in DOMAIN h : (IsResultEntry(h[i]) /\ IsCallEntry(h[j])) => j < i

\* a blocking response for two tool calls and two tool results
C10_Witness ==
    /\ Returned
    /\ Len(ResultToolCallsOf(result)) = 2
    /\ Len(ResultToolResultsOf(result)) = 2
    /\ result.toolCalls[1] # result.toolCalls[2]
    /\ Len(History(response)) = 4

-----------------------------------------------------------------------------
(* C11 *)

\* the config of a request, the empty object when it has none
ConfigOf(p) == IF Has(p, "config") THEN p.config ELSE EmptyObject

\* the function declarations of a request that have a non-empty name, as the
\* pairs <<tool index, declaration index>>
NamedTools(p) ==
    IF ~Has(ConfigOf(p), "tools") THEN {}
    ELSE LET tools == ConfigOf(p).tools
         IN  {ij \in UNION {{<<i, j>> : j \in DOMAIN tools[i].functionDeclarations} :
                              i \in {k \in DOMAIN tools :
                                        Has(tools[k], "functionDeclarations")}} :
                 LET d == tools[ij[1]].functionDeclarations[ij[2]]
                 IN  Has(d, "name") /\ d.name # ""}

\* the request explicitly disables automatic function calling
AfcDisabled(p) ==
    /\ Has(ConfigOf(p), "automaticFunctionCalling")
    /\ Has(ConfigOf(p).automaticFunctionCalling, "disable")
    /\ ConfigOf(p).automaticFunctionCalling.disable = TRUE

\* C11: the backend parameters carry tools and toolChoice if and only if the
\* request has a tool declaration with a non-empty name; toolChoice is then
\* "none" when automatic function calling is explicitly disabled and "auto"
\* otherwise; without such a declaration neither field is present.
C11_ToolFieldsIffNamedTool ==
    Converted =>
        IF NamedTools(params) # {}
        THEN /\ Has(aiSdkParams, "tools")
             /\ Has(aiSdkParams, "toolChoice")
             /\ aiSdkParams.toolChoice = (IF AfcDisabled(params) THEN "none" ELSE "auto")
        ELSE /\ ~Has(aiSdkParams, "tools")
             /\ ~Has(aiSdkParams, "toolChoice")

\* a converted request with a named tool and automatic function calling disabled
C11_Witness ==
    /\ Converted
    /\ NamedTools(params) # {}
    /\ AfcDisabled(params)
    /\ aiSdkParams.toolChoice = "none"

-----------------------------------------------------------------------------
(* C12 *)

\* the non-empty names among the function declarations of a request
NonEmptyNames(p) ==
    {ConfigOf(p).tools[ij[1]].functionDeclarations[ij[2]].name : ij \in NamedTools(p)}

\* the function declarations a request supplies, named or not
SuppliedDeclarations(p) ==
    IF ~Has(ConfigOf(p), "tools") THEN {}
    ELSE LET tools == ConfigOf(p).tools
         IN  UNION {{<<i, j>> : j \in DOMAIN tools[i].functionDeclarations} :
                       i \in {k \in DOMAIN tools : Has(tools[k], "functionDeclarations")}}

\* C12: what convertToolsToAISDK hands to the backend parameters is never an
\* empty mapping: it is either absent, or a mapping whose keys are exactly the
\* non-empty names among the supplied function declarations; it is absent when
\* the tool list is absent, empty or holds only declarations without a name.
C12_ToolsNeverEmptyMapping ==
    Converted =>
        IF Has(aiSdkParams, "tools")
        THEN /\ DOMAIN aiSdkParams.tools # {}
             /\ DOMAIN aiSdkParams.tools = NonEmptyNames(params)
        ELSE NonEmptyNames(params) = {}

\* a converted request whose tool list holds declarations, none of them with a
\* non-empty name, and whose backend parameters have no tools
C12_Witness ==
    /\ Converted
    /\ SuppliedDeclarations(params) # {}
    /\ NonEmptyNames(params) = {}
    /\ ~Has(aiSdkParams, "tools")

-----------------------------------------------------------------------------
(* C13 *)

\* what a call yields when it runs alone: the partial responses of its own
\* backend events and, once it has finished, the final response built from its own
\* tool calls and its own promises
AloneYields(g) ==
    YieldsOf(g.consumed, GetString(g.params, "model"))
    \o (IF g.pc \in {"final", "done"}
        THEN <<FinalResponse(g.finalUsage, g.finalFinishReason, g.finalProviderMetadata,
                             PendingOf(g.consumed), GetString(g.params, "model"))>>
        ELSE <<>>)

\* C13: in every interleaving of two streaming calls through one client, what
\* each call has yielded, the history of its final response included, and what it
\* has accumulated are those of the call running alone on its own backend events.
C13_ConcurrentStreamsIndependent ==
    \A i \in CallIds :
        IF Has(streams[i], "consumed")
        THEN /\ streams[i].yielded = AloneYields(streams[i])
             /\ streams[i].accumulatedText = TextOf(streams[i].consumed)
             /\ streams[i].pendingToolCalls = PendingOf(streams[i].consumed)
        ELSE streams[i].pc \in {"idle", "failed"}

\* call 1 has yielded its final response, with the pair of its own tool call c1
\* as history, while call 2 is in its loop with its own tool call c2 pending
C13_Witness ==
    /\ streams[1].pc = "final"
    /\ streams[2].pc = "loop"
    /\ Len(streams[2].pendingToolCalls) = 1
    /\ streams[2].pendingToolCalls[1].key = "c2"
    /\ Len(History(Last(streams[1].yielded))) = 2
    /\ History(Last(streams[1].yielded))[1].parts[1].functionCall.id = "c1"

-----------------------------------------------------------------------------
(* C14 *)

\* the text t occurs in the text s
Embeds(s, t) == \E i \in 0..(Len(s) - Len(t)) : SubSeq(s, i + 1, i + Len(t)) = t

\* C14: when generateText or streamText throws, the call fails with an error
\* whose message embeds the message of the error thrown, and the call returns no
\* response and no generator: nothing is ever yielded for it.
C14_BackendErrorReachesCaller ==
    backendError # UndefinedObject =>
        /\ call \in {"generate", "stream"}
        /\ pc = "failed"
        /\ thrown # UndefinedObject
        /\ Embeds(thrown.message, backendError.message)
        /\ response = UndefinedObject
        /\ yielded = <<>>
        /\ consumed = <<>>

\* a streaming call that failed because streamText threw
C14_Witness ==
    /\ call = "stream"
    /\ pc = "failed"
    /\ backendError # UndefinedObject
    /\ backendError.message = "rate limited"
    /\ thrown.message = "AI SDK streamText failed: AI_APICallError: rate limited"

-----------------------------------------------------------------------------
(* C15 *)

\* C15 as stated: the parameters handed to the backend carry the cancellation
\* signal of the request, whenever the request has one.
C15_AbortSignalPassedThrough ==
    (Converted /\ Has(ConfigOf(params), "abortSignal")) =>
        /\ Has(aiSdkParams, "abortSignal")
        /\ aiSdkParams.abortSignal = ConfigOf(params).abortSignal

-----------------------------------------------------------------------------
(* C16 *)

\* the generator has completed after its final response, or has thrown
StreamOver ==
    \/ pc = "done" /\ yielded # <<>> /\ Has(Last(yielded), "usageMetadata")
    \/ pc = "failed"

\* C16: a generator that is pulled fairly on a finite backend stream whose
\* promises resolve ends: it completes after yielding its final response, or it
\* throws; once it has completed or thrown it yields nothing more and never runs
\* again.
C16_StreamTerminates ==
    /\ (call = "stream" /\ pc = "loop") ~> (call = "stream" /\ StreamOver)
    /\ [][(call = "stream" /\ pc \in {"done", "failed"}) =>
             UNCHANGED <<pc, yielded, consumed>>]_vars

\* a generator that has completed after three backend events and four responses
C16_Witness ==
    /\ call = "stream"
    /\ pc = "done"
    /\ Len(consumed) = MaxEvents
    /\ Len(yielded) = MaxEvents + 1
    /\ Has(Last(yielded), "usageMetadata")

-----------------------------------------------------------------------------
(* C17 *)

\* the turn has a text block that is not empty
TurnHasText(content) ==
    \E i \in DOMAIN content.parts :
        Has(content.parts[i], "text") /\ content.parts[i].text # ""

\* the tool-call blocks of a turn, in order
CallBlocks(content) == SelectSeq(content.parts, HasFunctionCall)

\* a model turn with text or with a tool call
IsSpeakingModelTurn(content) ==
    content.role = "model" /\ (TurnHasText(content) \/ CallBlocks(content) # <<>>)

\* a model turn with a tool call and no text
IsToolOnlyModelTurn(content) ==
    content.role = "model" /\ ~TurnHasText(content) /\ CallBlocks(content) # <<>>

IsAssistantMessage(m) == m.role = "assistant"

\* C17: the assistant messages are, in order, those of the model turns that have
\* text or a tool call, one per turn; the message of a model turn with tool calls
\* and no text starts with a text item that is not empty and continues with one
\* tool-call item per tool call of the turn, in the turn's order, with the call's
\* name and its args (the empty mapping when the call has none).
C17_PlaceholderBeforeToolCalls ==
    Converted =>
        LET assistants == SelectSeq(aiSdkParams.messages, IsAssistantMessage)
            turns == SelectSeq(normalizeContents(params.contents), IsSpeakingModelTurn)
        IN  /\ Len(assistants) = Len(turns)
            /\ \A k \in DOMAIN turns :
                 IsToolOnlyModelTurn(turns[k]) =>
                     LET items == assistants[k].content
                         calls == CallBlocks(turns[k])
                     IN  /\ Len(items) = 1 + Len(calls)
                         /\ items[1].type = "text"
                         /\ items[1].text # ""
                         /\ \A j \in DOMAIN calls :
                              /\ items[j + 1].type = "tool-call"
                              /\ items[j + 1].toolName = calls[j].functionCall.name
                              /\ items[j + 1].args =
                                     (IF Has(calls[j].functionCall, "args")
                                      THEN calls[j].functionCall.args ELSE EmptyObject)

\* a converted request with a model turn of two different tool calls and no text
C17_Witness ==
    /\ Converted
    /\ \E k \in DOMAIN normalizeContents(params.contents) :
         LET content == normalizeContents(params.contents)[k]
         IN  /\ IsToolOnlyModelTurn(content)
             /\ Len(CallBlocks(content)) = 2
             /\ CallBlocks(content)[1] # CallBlocks(content)[2]
    /\ \E i \in DOMAIN aiSdkParams.messages :
         /\ aiSdkParams.messages[i].role = "assistant"
         /\ Len(aiSdkParams.messages[i].content) = 3
         /\ aiSdkParams.messages[i].content[1].text = PlaceholderText

-----------------------------------------------------------------------------
(* C18 *)

\* the tool-result blocks of a turn, in order
ResultBlocksOf(content) == SelectSeq(content.parts, HasFunctionResponse)

\* the messages expected of the turns k, k + 1, ... of a content list, in order:
\* for each turn that is not a system turn, a mark for its combined text /
\* tool-call message when it has text or is a model turn with a tool call, then a
\* mark for each of its tool results
RECURSIVE ExpectedFrom(_, _)
ExpectedFrom(contents, k) ==
    IF k > Len(contents) THEN <<>>
    ELSE LET content == contents[k]
             combined == IF TurnHasText(content) \/ IsToolOnlyModelTurn(content)
                         THEN <<[turn |-> k, kind |-> "combined"]>> ELSE <<>>
             results == [j \in DOMAIN ResultBlocksOf(content) |->
                            [turn |-> k, kind |-> "tool", block |-> j]]
         IN  (IF IsSystem(content) THEN <<>> ELSE combined \o results)
             \o ExpectedFrom(contents, k + 1)

\* message m is the combined text / tool-call message of the turn
IsCombinedOf(m, content) ==
    /\ m.role = (IF content.role = "user" THEN "user" ELSE "assistant")
    /\ m.content[1].type = "text"
    /\ TurnHasText(content) => m.content[1].text = JoinText(content.parts)
    /\ Len(m.content) =
           1 + (IF content.role = "model" THEN Len(CallBlocks(content)) ELSE 0)

\* message m is the tool message of the j-th tool result of the turn
IsToolMessageOf(m, content, j) ==
    /\ m.role = "tool"
    /\ m.content[1].toolCallId = ResultBlocksOf(content)[j].functionResponse.id
    /\ m.content[1].toolName = ResultBlocksOf(content)[j].functionResponse.name

\* C18: the messages are those of the turns in turn order: every message of an
\* earlier turn comes before every message of a later turn, and within a turn the
\* combined text / tool-call message, when there is one, comes before the tool
\* messages, which are in the order of the turn's tool results.
C18_MessagesInTurnOrder ==
    Converted =>
        LET contents == normalizeContents(params.contents)
            messages == aiSdkParams.messages
            expected == ExpectedFrom(contents, 1)
        IN  /\ Len(messages) = Len(expected)
            /\ \A i \in DOMAIN expected :
                 IF expected[i].kind = "combined"
                 THEN IsCombinedOf(messages[i], contents[expected[i].turn])
                 ELSE IsToolMessageOf(messages[i], contents[expected[i].turn],
                                      expected[i].block)
            /\ \A i, j \in DOMAIN expected :
                 i < j =>
                     /\ expected[i].turn <= expected[j].turn
                     /\ ~(expected[i].turn = expected[j].turn
                          /\ expected[j].kind = "combined")

\* a converted request of two turns, the first with text and a tool result, the
\* second with text: a combined message, a tool message, a combined message
C18_Witness ==
    /\ Converted
    /\ Len(normalizeContents(params.contents)) = 2
    /\ TurnHasText(normalizeContents(params.contents)[1])
    /\ Len(ResultBlocksOf(normalizeContents(params.contents)[1])) = 1
    /\ normalizeContents(params.contents)[1].role # normalizeContents(params.contents)[2].role
    /\ Len(aiSdkParams.messages) = 3
    /\ aiSdkParams.messages[1].role # "tool"
    /\ aiSdkParams.messages[2].role = "tool"
    /\ aiSdkParams.messages[3].role # "tool"

-----------------------------------------------------------------------------
(* C19 *)

\* C19: the content of a blocking response holds at least one block: when the
\* backend text is not empty, a text block with that text and no empty text
\* block; when it is empty or absent, one empty text block and nothing else.
C19_ContentHasABlock ==
    Returned =>
        LET parts == response.candidates[1].content.parts
        IN  /\ Len(parts) >= 1
            /\ IF Has(result, "text") /\ result.text # ""
               THEN /\ \E i \in DOMAIN parts : parts[i] = [text |-> result.text]
                    /\ \A i \in DOMAIN parts :
                         Has(parts[i], "text") => parts[i].text = result.text
               ELSE parts = <<[text |-> ""]>>

\* a blocking response for a backend result with tool calls and no text
C19_Witness ==
    /\ Returned
    /\ ~Has(result, "text")
    /\ Len(ResultToolCallsOf(result)) = 1
    /\ response.candidates[1].content.parts = <<[text |-> ""]>>

-----------------------------------------------------------------------------
(* C20 *)

\* the lowercased form of the type names the requests use
LowercasedType ==
    [t \in {"STRING", "Number", "Object"} |->
        CASE t = "STRING" -> "string"
          [] t = "Number" -> "number"
          [] t = "Object" -> "object"]

\* the reference conversion of a parameter schema
ReferenceSchema(schema) ==
    IF schema = UndefinedObject \/ ~Has(schema, "type") THEN EmptyObject
    ELSE IF schema.type \in {"OBJECT", "object"}
    THEN [type |-> "object",
          properties |-> IF Has(schema, "properties") THEN schema.properties
                         ELSE EmptyObject,
          required |-> IF Has(schema, "required") THEN schema.required ELSE <<>>,
          additionalProperties |-> ~(/\ Has(schema, "additionalProperties")
                                     /\ schema.additionalProperties = FALSE)]
    ELSE [type |-> LowercasedType[schema.type]]

\* the declaration of a request that gives the tool of name n: the last one of
\* that name
DeclarationNamed(p, n) ==
    LET tools == ConfigOf(p).tools
        named == {ij \in NamedTools(p) :
                     tools[ij[1]].functionDeclarations[ij[2]].name = n}
        last == CHOOSE ij \in named :
                    \A kl \in named :
                        kl[1] < ij[1] \/ (kl[1] = ij[1] /\ kl[2] <= ij[2])
    IN  tools[last[1]].functionDeclarations[last[2]]

\* the parameter schema of a declaration, UndefinedObject when it has none
ParametersOf(d) == IF Has(d, "parameters") THEN d.parameters ELSE UndefinedObject

\* C20: the JSON schema of every tool handed to the backend is the reference
\* conversion of the parameter schema of its declaration: the full object schema
\* for type OBJECT or object, the lowercased type alone for any other type, the
\* empty schema for an absent schema or a schema without type.
C20_SchemaConversionIsReference ==
    (Converted /\ Has(aiSdkParams, "tools")) =>
        \A n \in DOMAIN aiSdkParams.tools :
            aiSdkParams.tools[n].parameters.jsonSchema =
                ReferenceSchema(ParametersOf(DeclarationNamed(params, n)))

\* a converted request whose tool f declares {type: OBJECT, properties: {x: string},
\* required: [x]} and gets the object schema with additionalProperties true
C20_Witness ==
    /\ Converted
    /\ Has(aiSdkParams, "tools")
    /\ "f" \in DOMAIN aiSdkParams.tools
    /\ ParametersOf(DeclarationNamed(params, "f")) =
           [type |-> "OBJECT", properties |-> [x |-> [type |-> "string"]],
            required |-> <<"x">>]
    /\ aiSdkParams.tools["f"].parameters.jsonSchema =
           [type |-> "object", properties |-> [x |-> [type |-> "string"]],
            required |-> <<"x">>, additionalProperties |-> TRUE]

-----------------------------------------------------------------------------
(* C21 *)

\* count f of the backend's usage, zero when the backend reports none
BackendCount(usage, f) == IF Has(usage, f) THEN usage[f] ELSE 0

\* the provider reports a cache-read count
ReportsCacheRead(providerMetadata) ==
    /\ Has(providerMetadata, "anthropic")
    /\ Has(providerMetadata.anthropic, "cacheReadInputTokens")

\* the usage metadata carries the backend's counts, zero for a count the backend
\* does not report, and the provider's cache-read count, unset when the provider
\* reports none
CarriesUsage(usageMetadata, usage, providerMetadata) ==
    /\ usageMetadata.promptTokenCount = BackendCount(usage, "promptTokens")
    /\ usageMetadata.candidatesTokenCount = BackendCount(usage, "completionTokens")
    /\ usageMetadata.totalTokenCount = BackendCount(usage, "totalTokens")
    /\ IF ReportsCacheRead(providerMetadata)
       THEN /\ Has(usageMetadata, "cachedContentTokenCount")
            /\ usageMetadata.cachedContentTokenCount =
                   providerMetadata.anthropic.cacheReadInputTokens
       ELSE ~Has(usageMetadata, "cachedContentTokenCount")

\* C21: in the blocking response and in the final streamed response the prompt,
\* completion and total token counts are the backend's, zero where it reports
\* none, and the cached-token count is the provider's cache-read count, unset and
\* never zero when the provider reports none.
C21_UsageCountsCarried ==
    /\ Returned =>
           CarriesUsage(response.usageMetadata, GetObject(result, "usage"),
                        GetObject(result, "providerMetadata"))
    /\ StreamFinished =>
           CarriesUsage(Last(yielded).usageMetadata, finalUsage, finalProviderMetadata)

\* a blocking response for a result that reports only its prompt tokens and whose
\* provider reports no cache-read count
C21_Witness ==
    /\ Returned
    /\ Has(result, "usage")
    /\ result.usage = [promptTokens |-> 3]
    /\ Has(result, "providerMetadata")
    /\ ~ReportsCacheRead(result.providerMetadata)
    /\ response.usageMetadata =
           [promptTokenCount |-> 3, candidatesTokenCount |-> 0, totalTokenCount |-> 0]

-----------------------------------------------------------------------------
(* C22 *)

\* the input items of a request's contents: the elements of a list, or the one
\* item that is given without a list
InputItems(contents) == IF IsArray(contents) THEN contents.array ELSE <<contents>>

\* the explicit turn an input item stands for
TurnOfItem(item) ==
    IF IsString(item)
    THEN [role |-> "user", parts |-> <<[text |-> item.string]>>]
    ELSE IF IsArray(item)
    THEN [role |-> "user",
          parts |-> [i \in DOMAIN item.array |->
                        IF IsString(item.array[i]) THEN [text |-> item.array[i].string]
                        ELSE item.array[i]]]
    ELSE IF Has(item, "parts") THEN item
    ELSE [role |-> "user", parts |-> <<item>>]

\* the request with its contents replaced by their normalized form
Renormalized(p) == Set(p, "contents", [array |-> normalizeContents(p.contents)])

\* C22: normalizeContents gives one explicit turn per input item, in order: a
\* user turn with one text block for a bare string, a user turn with the blocks
\* in order for a bare sequence of blocks, the turn itself for an explicit turn;
\* normalizing the normalized list again gives the same list, and the backend
\* parameters built from it are the same; the input ['Hello'] gives exactly one
\* user message with text 'Hello' and no system text.
C22_NormalizeContentsIdempotent ==
    Converted =>
        LET items == InputItems(params.contents)
            normalized == normalizeContents(params.contents)
        IN  /\ Len(normalized) = Len(items)
            /\ \A i \in DOMAIN items :
                 /\ normalized[i] = TurnOfItem(items[i])
                 /\ Has(normalized[i], "role")
                 /\ Has(normalized[i], "parts")
            /\ normalizeContents([array |-> normalized]) = normalized
            /\ \E now \in Clock : convertToAISDKParams(Renormalized(params), now) = aiSdkParams
            /\ params = [contents |-> [array |-> <<[string |-> "Hello"]>>]] =>
                 /\ aiSdkParams.messages =
                        <<[role |-> "user",
                           content |-> <<[type |-> "text", text |-> "Hello"]>>]>>
                 /\ ~Has(aiSdkParams, "system")

\* a converted request whose contents mix a bare sequence of blocks, with a bare
\* string in it, and an explicit turn
C22_Witness ==
    /\ Converted
    /\ IsArray(params.contents)
    /\ Len(params.contents.array) = 2
    /\ IsArray(params.contents.array[1])
    /\ Len(params.contents.array[1].array) = 2
    /\ Has(params.contents.array[2], "parts")
    /\ Len(normalizeContents(params.contents)) = 2
    /\ normalizeContents(params.contents)[1] =
           [role |-> "user", parts |-> <<[text |-> "a"], [text |-> "b"]>>]
    /\ normalizeContents(params.contents)[2] = params.contents.array[2]

-----------------------------------------------------------------------------
(* C23 *)

\* C23: every embedContent call fails with an error that says embedding is not
\* implemented; no response is returned, nothing is handed to the backend and
\* nothing comes back from it.
C23_EmbedContentAlwaysThrows ==
    call = "embed" =>
        /\ pc = "failed"
        /\ thrown # UndefinedObject
        /\ Embeds(thrown.message, "Embedding")
        /\ Embeds(thrown.message, "not yet implemented")
        /\ response = UndefinedObject
        /\ aiSdkParams = UndefinedObject
        /\ result = UndefinedObject
        /\ backendError = UndefinedObject
        /\ yielded = <<>>

\* an embedContent call that has failed
C23_Witness ==
    /\ call = "embed"
    /\ pc = "failed"
    /\ params \in EmbedInputs
    /\ thrown.message = "Embedding not yet implemented for AI SDK client"

-----------------------------------------------------------------------------
(* C24 *)

\* the one content block a partial response is to hold for a text-delta or a
\* tool-call event
BlockOf(chunk) ==
    IF chunk.type = "text-delta" THEN [text |-> chunk.textDelta]
    ELSE [functionCall |->
             [id |-> chunk.toolCallId,
              name |-> chunk.toolName,
              args |-> IF Has(chunk, "args") THEN chunk.args ELSE EmptyObject]]

\* C24: the step that takes a text-delta or a tool-call event from the backend
\* stream appends exactly one response to what has been yielded, so that it is
\* yielded in event order and before the next event is pulled; the response holds
\* exactly one content block, the delta text or the functionCall of the event, and
\* no finish reason; a text delta is appended to accumulatedText and a tool call
\* is recorded in pendingToolCalls under its id.
C24_OnePartialPerEvent ==
    [][(call = "stream" /\ consumed' # consumed
        /\ Last(consumed').type \in {"text-delta", "tool-call"}) =>
           LET chunk == Last(consumed')
           IN  /\ Len(yielded') = Len(yielded) + 1
               /\ Front(yielded') = yielded
               /\ Last(yielded').candidates[1].content.parts = <<BlockOf(chunk)>>
               /\ ~Has(Last(yielded').candidates[1], "finishReason")
               /\ chunk.type = "text-delta" =>
                    accumulatedText' = accumulatedText \o chunk.textDelta
               /\ chunk.type = "tool-call" =>
                    \E i \in DOMAIN pendingToolCalls' :
                        /\ pendingToolCalls'[i].key = chunk.toolCallId
                        /\ pendingToolCalls'[i].value.functionCall = BlockOf(chunk)
                        /\ \A j \in DOMAIN pendingToolCalls' :
                             pendingToolCalls'[j].key = chunk.toolCallId => j = i]_vars

\* a stream in its loop that has taken a text delta and a tool call without args
\* and has yielded one response for each
C24_Witness ==
    /\ call = "stream"
    /\ pc = "loop"
    /\ Len(consumed) = 2
    /\ consumed[1].type = "text-delta"
    /\ consumed[2].type = "tool-call"
    /\ ~Has(consumed[2], "args")
    /\ Len(yielded) = 2
    /\ yielded[1].candidates[1].content.parts = <<[text |-> consumed[1].textDelta]>>
    /\ yielded[2].candidates[1].content.parts[1].functionCall.args = EmptyObject
    /\ Len(pendingToolCalls) = 1

-----------------------------------------------------------------------------
(* C25 *)

ToolExecutedPlaceholder == "Tool executed by existing system"

\* C25: in the final streamed response every entry of pendingToolCalls gives one
\* adjacent pair of the history, in the order of the entries: a call entry with
\* the entry's id and tool name, immediately followed by a result entry with the
\* same id and tool name whose output is the fixed placeholder text, whether or
\* not the backend stream held tool-result events; the history holds nothing else.
C25_PendingCallsGivePlaceholderPairs ==
    StreamFinished =>
        LET h == History(Last(yielded))
        IN  /\ Len(h) = 2 * Len(pendingToolCalls)
            /\ \A k \in DOMAIN pendingToolCalls :
                 LET entry == pendingToolCalls[k]
                     callEntry == h[2 * k - 1]
                     resultEntry == h[2 * k]
                 IN  /\ IsCallEntry(callEntry)
                     /\ callEntry.parts[1].functionCall.id = entry.key
                     /\ callEntry.parts[1].functionCall.name = entry.value.toolName
                     /\ IsResultEntry(resultEntry)
                     /\ resultEntry.parts[1].functionResponse.id = entry.key
                     /\ resultEntry.parts[1].functionResponse.name = entry.value.toolName
                     /\ resultEntry.parts[1].functionResponse.response =
                            [output |-> ToolExecutedPlaceholder]

\* a finished stream whose events were a tool call, the tool result of that call
\* and a second tool call
C25_Witness ==
    /\ StreamFinished
    /\ Len(consumed) = 3
    /\ IsToolCallEvent(consumed[1])
    /\ IsToolResultEvent(consumed[2])
    /\ consumed[2].toolCallId = consumed[1].toolCallId
    /\ IsToolCallEvent(consumed[3])
    /\ Len(pendingToolCalls) = 2
    /\ Len(History(Last(yielded))) = 4
    /\ History(Last(yielded))[2].parts[1].functionResponse.response.output =
           ToolExecutedPlaceholder

-----------------------------------------------------------------------------
(* C26 *)

\* the tool-result block has an output payload
HasOutput(block) ==
    /\ Has(block.functionResponse, "response")
    /\ Has(block.functionResponse.response, "output")

\* the output payload as the text a tool message carries: a string as it is,
\* anything else as JSON text
OutputText(output) == IF IsString(output) THEN output.string ELSE JSONStringify(output)

\* C26 as stated: the result of a tool message is the output of its tool-result
\* block, as text, whenever the block has an output, an empty, zero or false
\* output included, and is the placeholder text only when the block has none.
C26_OutputCarriedAsGiven ==
    Converted =>
        LET tools == SelectSeq(aiSdkParams.messages, IsToolMessage)
            blocks == ResultBlocks(normalizeContents(params.contents))
        IN  \A i \in DOMAIN tools :
                i \in DOMAIN blocks =>
                    tools[i].content[1].result =
                        (IF HasOutput(blocks[i])
                         THEN OutputText(blocks[i].functionResponse.response.output)
                         ELSE "Tool executed")

-----------------------------------------------------------------------------
(* C27 *)

\* the last tool-call event of a sequence of events that proposes the id
LastProposal(events, id) ==
    LET calls == SelectSeq(events, IsToolCallEvent)
        last == CHOOSE i \in DOMAIN calls :
                    /\ calls[i].toolCallId = id
                    /\ \A j \in DOMAIN calls : calls[j].toolCallId = id => j <= i
    IN  calls[last]

\* the responses yielded so far that hold a functionCall block
FunctionCallYields ==
    SelectSeq(yielded, LAMBDA r : Has(r.candidates[1].content.parts[1], "functionCall"))

\* C27: pendingToolCalls holds one entry per distinct tool-call id, in order of
\* first proposal, each with the last call proposed under that id; the history
\* of the final response holds two entries per distinct id and nothing else;
\* one partial response has been yielded for every tool-call event, repeated ids
\* included.
C27_OneEntryPerDistinctId ==
    call = "stream" =>
        LET ids == FirstProposals(ToolCallEvents)
        IN  /\ Len(pendingToolCalls) = Len(ids)
            /\ \A k \in DOMAIN ids :
                 /\ pendingToolCalls[k].key = ids[k]
                 /\ pendingToolCalls[k].value.functionCall =
                        BlockOf(LastProposal(consumed, ids[k]))
                 /\ pendingToolCalls[k].value.toolName =
                        LastProposal(consumed, ids[k]).toolName
            /\ Len(FunctionCallYields) = Len(ToolCallEvents)
            /\ StreamFinished =>
                 /\ Len(History(Last(yielded))) = 2 * Len(ids)
                 /\ \A k \in DOMAIN ids :
                      History(Last(yielded))[2 * k - 1].parts[1] =
                          BlockOf(LastProposal(consumed, ids[k]))

\* a finished stream that proposed the id c1 twice, for two different tools, and
\* then the id c2
C27_Witness ==
    /\ StreamFinished
    /\ Len(consumed) = 3
    /\ IsToolCallEvent(consumed[1])
    /\ IsToolCallEvent(consumed[2])
    /\ IsToolCallEvent(consumed[3])
    /\ consumed[1].toolCallId = consumed[2].toolCallId
    /\ consumed[1].toolName # consumed[2].toolName
    /\ consumed[3].toolCallId # consumed[1].toolCallId
    /\ Len(pendingToolCalls) = 2
    /\ pendingToolCalls[1].value.toolName = consumed[2].toolName
    /\ Len(History(Last(yielded))) = 4
    /\ Len(yielded) = 4

-----------------------------------------------------------------------------
(* C28 *)

\* the number of messages a turn is to give
MessageCount(content) ==
    IF IsSystem(content) THEN 0
    ELSE (IF TurnHasText(content)
             \/ (content.role = "model" /\ CallBlocks(content) # <<>>)
          THEN 1 ELSE 0)
         + Len(ResultBlocksOf(content))

\* the number of tool-call items the messages of a turn are to hold
ToolCallItemCount(content) ==
    IF content.role = "model" THEN Len(CallBlocks(content)) ELSE 0

RECURSIVE SumOver(_, _)
SumOver(Count(_), contents) ==
    IF contents = <<>> THEN 0
    ELSE Count(Head(contents)) + SumOver(Count, Tail(contents))

\* the tool-call items of a sequence of messages
RECURSIVE ToolCallItems(_)
ToolCallItems(messages) ==
    IF messages = <<>> THEN <<>>
    ELSE SelectSeq(Head(messages).content, LAMBDA item : item.type = "tool-call")
         \o ToolCallItems(Tail(messages))

\* C28: the messages number, summed over the turns that are not system turns,
\* one for a turn with text or a model turn with a tool call, plus one per
\* tool-result block; tool-call items come from model turns only, so the tool
\* calls of a turn of another role are in no message, and a request whose turns
\* have neither text, nor results, nor model tool calls gives no message.
C28_MessageCountPerTurn ==
    Converted =>
        LET contents == normalizeContents(params.contents)
        IN  /\ Len(aiSdkParams.messages) = SumOver(MessageCount, contents)
            /\ Len(ToolCallItems(aiSdkParams.messages)) =
                   SumOver(ToolCallItemCount, contents)

\* a converted request of a user turn with text and a tool call, which gives one
\* message without the call, and a user turn with a tool call alone, which gives
\* none
C28_Witness ==
    /\ Converted
    /\ Len(normalizeContents(params.contents)) = 2
    /\ \A k \in 1..2 :
         /\ normalizeContents(params.contents)[k].role = "user"
         /\ CallBlocks(normalizeContents(params.contents)[k]) # <<>>
    /\ TurnHasText(normalizeContents(params.contents)[1])
    /\ ~TurnHasText(normalizeContents(params.contents)[2])
    /\ Len(aiSdkParams.messages) = 1
    /\ ToolCallItems(aiSdkParams.messages) = <<>>

====
